---- MODULE Spec2Model ----
(***************************************************************************)
(* A model of cleo's option parser (src/src/cleo/parser/optparser.py):     *)
(* option registration in an OptionParser and its OptionGroups (the        *)
(* shared short/long lookup tables, the defaults table, conflict           *)
(* handling), the abbreviation resolver, and the argument-vector           *)
(* processor driven by parse_args.                                         *)
(*                                                                         *)
(* Python strings are sequences of one-character strings, so that          *)
(* prefixes, the split at "=" and the walk over a short cluster are        *)
(* computed on characters as the code computes them.  Python values are    *)
(* one-field records tagged by their type (None, str, bool, int, list,     *)
(* tuple).  A dict whose iteration order the code can observe is a         *)
(* sequence of key/value entries in insertion order.                       *)
(***************************************************************************)
EXTENDS Integers, Sequences, FiniteSets, TLC

VARIABLES
    options,                  \* the Option objects ever constructed: id -> attributes
    option_list,              \* container -> its option_list (ids, in order)
    option_groups,            \* the parser's option_groups
    conflict_handler,         \* container -> "error" | "resolve"
    _short_opt,               \* the shared short-string table (insertion-ordered dict)
    _long_opt,                \* the shared long-string table (insertion-ordered dict)
    defaults,                 \* the shared defaults table: dest -> value
    allow_interspersed_args,  \* OptionParser.allow_interspersed_args
    process_default_values,   \* OptionParser.process_default_values
    call,                     \* the last registration call and how it ended
    args,                     \* the token vector handed to parse_args
    sys_argv,                 \* sys.argv[1:] of the process
    rargs,                    \* OptionParser.rargs (None until parse_args sets it)
    largs,                    \* OptionParser.largs
    values,                   \* OptionParser.values
    aliased,                  \* the dests whose attribute of values is the very
                              \* list object the defaults table holds
    fired,                    \* the option actions taken so far, in order
    pc,                       \* where the parse_args call stands
    result,                   \* how the parse_args call ended
    formatter,                \* the HelpFormatter that renders the help
    threads                   \* the parse_args calls that run side by side:
                              \* the locals of each, and whose lists the
                              \* attributes rargs, largs and values are

vars == <<options, option_list, option_groups, conflict_handler, _short_opt,
          _long_opt, defaults, allow_interspersed_args, process_default_values,
          call, args, sys_argv, rargs, largs, values, aliased, fired, pc,
          result, formatter, threads>>

regvars == <<options, option_list, option_groups, conflict_handler,
             _short_opt, _long_opt, defaults>>

flagvars == <<allow_interspersed_args, process_default_values, formatter>>

parsevars == <<args, sys_argv, rargs, largs, values, aliased, fired, pc, result,
               threads>>

----------------------------------------------------------------------------
(* Bounds of the model.                                                    *)

MaxOptions == 2
MaxGroups == 2
MaxListLen == 2
MaxArgs == 3

----------------------------------------------------------------------------
(* Python values.                                                          *)

None == [none |-> TRUE]
NO_DEFAULT == [no_default |-> TRUE]
Str(s) == [str |-> s]
Bool(b) == [bool |-> b]
IntVal(n) == [int |-> n]
Name(s) == [name |-> s]
List(l) == [list |-> l]
Tuple(l) == [tuple |-> l]

IsNone(v) == "none" \in DOMAIN v
IsStr(v) == "str" \in DOMAIN v
IsList(v) == "list" \in DOMAIN v

NoError == "none"

----------------------------------------------------------------------------
(* Lists and strings.                                                      *)

\* A value held in a local variable: the body is given the value v.
With(v, Body(_)) == Body(v)

Contains(seq, x) == \E i \in 1..Len(seq) : seq[i] = x

IndexOf(seq, x) ==
    CHOOSE i \in 1..Len(seq) : seq[i] = x /\ \A j \in 1..(i - 1) : seq[j] # x

\* list.remove(x), for x in the list: drops the first occurrence only.
ListRemove(seq, x) ==
    LET i == IndexOf(seq, x)
    IN SubSeq(seq, 1, i - 1) \o SubSeq(seq, i + 1, Len(seq))

\* s[n:]
Drop(s, n) == SubSeq(s, n + 1, Len(s))

\* s[:n]
Take(s, n) == SubSeq(s, 1, IF n < Len(s) THEN n ELSE Len(s))

\* word.startswith(s)
StartsWith(word, s) == Len(s) <= Len(word) /\ SubSeq(word, 1, Len(s)) = s

\* The code point of a character, for the comparison of strings.
Ord(c) ==
    CASE c = "-" -> 45
      [] c = "." -> 46
      [] c = "0" -> 48
      [] c = "1" -> 49
      [] c = "=" -> 61
      [] c = "a" -> 97
      [] c = "b" -> 98
      [] c = "c" -> 99
      [] c = "d" -> 100
      [] c = "e" -> 101
      [] c = "g" -> 103
      [] c = "h" -> 104
      [] c = "l" -> 108
      [] c = "m" -> 109
      [] c = "n" -> 110
      [] c = "o" -> 111
      [] c = "p" -> 112
      [] c = "r" -> 114
      [] c = "s" -> 115
      [] c = "t" -> 116
      [] c = "u" -> 117
      [] c = "v" -> 118
      [] c = "x" -> 120
      [] c = "y" -> 121
      [] c = "z" -> 122

\* Python's str.__lt__: lexicographic by code point.
RECURSIVE StrLess(_, _)
StrLess(a, b) ==
    IF b = <<>> THEN FALSE
    ELSE IF a = <<>> THEN TRUE
    ELSE IF a[1] # b[1] THEN Ord(a[1]) < Ord(b[1])
    ELSE StrLess(Tail(a), Tail(b))

\* Insertion of w into a sorted list, after the entries not greater than it.
RECURSIVE SortedInsert(_, _)
SortedInsert(sorted, w) ==
    IF sorted = <<>> THEN <<w>>
    ELSE IF StrLess(w, sorted[1]) THEN <<w>> \o sorted
    ELSE <<sorted[1]>> \o SortedInsert(Tail(sorted), w)

\* list.sort() of a list of strings.
RECURSIVE ListSort(_)
ListSort(l) ==
    IF l = <<>> THEN <<>>
    ELSE SortedInsert(ListSort(SubSeq(l, 1, Len(l) - 1)), l[Len(l)])

----------------------------------------------------------------------------
(* Insertion-ordered dicts.                                                *)

DictHas(d, k) == \E i \in 1..Len(d) : d[i].k = k

DictGet(d, k) == d[CHOOSE i \in 1..Len(d) : d[i].k = k].v

DictSet(d, k, v) ==
    IF DictHas(d, k)
    THEN [i \in 1..Len(d) |-> IF d[i].k = k THEN [k |-> k, v |-> v] ELSE d[i]]
    ELSE Append(d, [k |-> k, v |-> v])

DictDel(d, k) == SelectSeq(d, LAMBDA e : e.k # k)

DictKeys(d) == [i \in 1..Len(d) |-> d[i].k]

\* for k in keys: d[k] = v
RECURSIVE DictSetAll(_, _, _)
DictSetAll(d, keys, v) ==
    IF keys = <<>> THEN d
    ELSE DictSetAll(DictSet(d, keys[1], v), Tail(keys), v)

\* for k in keys: del d[k]      (KeyError at the first key that is absent)
RECURSIVE DictDelAll(_, _)
DictDelAll(d, keys) ==
    IF keys = <<>> THEN [d |-> d, raised |-> NoError]
    ELSE IF ~DictHas(d, keys[1]) THEN [d |-> d, raised |-> "KeyError"]
    ELSE DictDelAll(DictDel(d, keys[1]), Tail(keys))

----------------------------------------------------------------------------
(* Option.                                                                 *)

STORE_ACTIONS ==
    {"store", "store_const", "store_true", "store_false", "append",
     "append_const", "count"}

TYPED_ACTIONS == {"store", "append", "callback"}

ALWAYS_TYPED_ACTIONS == {"store", "append"}

CONST_ACTIONS == {"store_const", "append_const"}

\* Option.ACTIONS
ALL_ACTIONS == STORE_ACTIONS \cup {"callback", "help", "version"}

TYPES == {"string", "int", "long", "float", "complex", "choice"}

\* The keyword arguments of Option(...) that are not given: every attribute
\* but default starts as None, default as NO_DEFAULT.
ATTRS ==
    [action |-> None, type |-> None, dest |-> None, default |-> NO_DEFAULT,
     nargs |-> None, const |-> None, choices |-> None, callback |-> None,
     callback_args |-> None, callback_kwargs |-> None, help |-> None,
     metavar |-> None]

\* How a step of the constructor ends: the option so far, and the exception
\* raised ("none" when there is none) with the head of its message.
Checked(o) == [o |-> o, raised |-> NoError, msg |-> ""]

OptionError(o, msg) == [o |-> o, raised |-> "OptionError", msg |-> msg]

\* The next step of the constructor, skipped once an exception is raised.
Then(r, Check(_)) == IF r.raised # NoError THEN r ELSE Check(r.o)

\* opts = [opt for opt in opts if opt]; TypeError when nothing is left.
_check_opt_strings(opts) ==
    LET given == SelectSeq(opts, LAMBDA opt : opt # <<>>)
    IN IF given = <<>>
       THEN [o |-> given, raised |-> "TypeError",
             msg |-> "at least one option string must be supplied"]
       ELSE Checked(given)

\* The test _set_opt_strings makes of one option string: "" when it passes.
opt_string_fault(opt) ==
    IF Len(opt) < 2 THEN "invalid option string"
    ELSE IF Len(opt) = 2
         THEN IF opt[1] = "-" /\ opt[2] # "-" THEN ""
              ELSE "invalid short option string"
    ELSE IF Take(opt, 2) = <<"-", "-">> /\ opt[3] # "-" THEN ""
         ELSE "invalid long option string"

\* A faulty _set_opt_strings, which looks at the length of a string only.
_set_opt_strings_by_length(o, opts) ==
    IF \E i \in DOMAIN opts : Len(opts[i]) < 2
    THEN OptionError(o, "invalid option string")
    ELSE Checked([o EXCEPT
                     !._short_opts = SelectSeq(opts, LAMBDA s : Len(s) = 2),
                     !._long_opts = SelectSeq(opts, LAMBDA s : Len(s) > 2)])

\* The strings of length 2 go to _short_opts and the longer ones to
\* _long_opts, each in the order given (repeated strings are kept), up to the
\* first string that is not well formed, at which OptionError is raised.
RECURSIVE _set_opt_strings(_, _)
_set_opt_strings(o, opts) ==
    IF opts = <<>> THEN Checked(o)
    ELSE IF opt_string_fault(opts[1]) # ""
         THEN OptionError(o, opt_string_fault(opts[1]))
    ELSE _set_opt_strings(
             IF Len(opts[1]) = 2
             THEN [o EXCEPT !._short_opts = Append(@, opts[1])]
             ELSE [o EXCEPT !._long_opts = Append(@, opts[1])],
             Tail(opts))

\* The loop over ATTRS: a keyword that is given sets the attribute; a keyword
\* that is no attribute raises OptionError.
set_attrs(o, attrs) ==
    IF DOMAIN attrs \ DOMAIN ATTRS # {}
    THEN OptionError(o @@ ATTRS, "invalid keyword arguments")
    ELSE Checked(o @@ [a \in DOMAIN ATTRS |->
                          IF a \in DOMAIN attrs THEN attrs[a] ELSE ATTRS[a]])

\* s.replace("-", "_")
ReplaceDash(s) == [i \in 1..Len(s) |-> IF s[i] = "-" THEN "_" ELSE s[i]]

\* An action or a type given by name.
IsName(v) == "name" \in DOMAIN v

\* A type object (int, str, ...), known by its __name__.
IsTypeObject(v) == "type" \in DOMAIN v

_check_action(o) ==
    IF IsNone(o.action) THEN Checked([o EXCEPT !.action = Name("store")])
    ELSE IF ~IsName(o.action) \/ o.action.name \notin ALL_ACTIONS
         THEN OptionError(o, "invalid action")
    ELSE Checked(o)

\* The type as _check_type reads it: the name of a type object, and
\* "string" for "str".
type_name(t) ==
    LET n == IF IsTypeObject(t) THEN Name(t.type) ELSE t
    IN IF n = Name("str") THEN Name("string") ELSE n

_check_type(o) ==
    IF IsNone(o.type)
    THEN IF o.action.name \in ALWAYS_TYPED_ACTIONS
         THEN Checked([o EXCEPT !.type = IF ~IsNone(o.choices)
                                         THEN Name("choice")
                                         ELSE Name("string")])
         ELSE Checked(o)
    ELSE IF ~IsName(type_name(o.type)) \/ type_name(o.type).name \notin TYPES
         THEN OptionError([o EXCEPT !.type = type_name(@)],
                          "invalid option type")
    ELSE IF o.action.name \notin TYPED_ACTIONS
         THEN OptionError([o EXCEPT !.type = type_name(@)],
                          "must not supply a type for action")
    ELSE Checked([o EXCEPT !.type = type_name(@)])

_check_choice(o) ==
    IF o.type = Name("choice")
    THEN IF IsNone(o.choices)
         THEN OptionError(o, "must supply a list of choices for type 'choice'")
         ELSE IF DOMAIN o.choices \notin {{"list"}, {"tuple"}}
              THEN OptionError(o, "choices must be a list of strings")
         ELSE Checked(o)
    ELSE IF ~IsNone(o.choices)
         THEN OptionError(o, "must not supply choices for type")
    ELSE Checked(o)

_check_dest(o) ==
    IF IsNone(o.dest) /\ (o.action.name \in STORE_ACTIONS \/ ~IsNone(o.type))
    THEN Checked([o EXCEPT !.dest =
                     IF o._long_opts # <<>>
                     THEN Str(ReplaceDash(Drop(o._long_opts[1], 2)))
                     ELSE Str(<<o._short_opts[1][2]>>)])
    ELSE Checked(o)

\* A faulty _check_const, which lets a const through for every action.
_check_const_lenient(o) == Checked(o)

_check_const(o) ==
    IF o.action.name \notin CONST_ACTIONS /\ ~IsNone(o.const)
    THEN OptionError(o, "'const' must not be supplied for action")
    ELSE Checked(o)

_check_nargs(o) ==
    IF o.action.name \in TYPED_ACTIONS
    THEN IF IsNone(o.nargs) THEN Checked([o EXCEPT !.nargs = IntVal(1)])
         ELSE Checked(o)
    ELSE IF ~IsNone(o.nargs)
         THEN OptionError(o, "'nargs' must not be supplied for action")
    ELSE Checked(o)

\* callable(v): a function is a [callable |-> name].
IsCallable(v) == "callable" \in DOMAIN v

_check_callback(o) ==
    IF o.action.name = "callback"
    THEN IF ~IsCallable(o.callback)
         THEN OptionError(o, "callback not callable")
         ELSE IF ~IsNone(o.callback_args) /\ DOMAIN o.callback_args # {"tuple"}
              THEN OptionError(o, "callback_args, if supplied, must be a tuple")
         ELSE IF ~IsNone(o.callback_kwargs) /\ DOMAIN o.callback_kwargs # {"dict"}
              THEN OptionError(o, "callback_kwargs, if supplied, must be a dict")
         ELSE Checked(o)
    ELSE IF ~IsNone(o.callback)
         THEN OptionError(o, "callback supplied for non-callback option")
    ELSE IF ~IsNone(o.callback_args)
         THEN OptionError(o, "callback_args supplied for non-callback option")
    ELSE IF ~IsNone(o.callback_kwargs)
         THEN OptionError(o, "callback_kwargs supplied for non-callback option")
    ELSE Checked(o)

\* Option.__init__(*opts, **attrs): the option strings, then the attributes,
\* then the checks of CHECK_METHODS in their order.  attrs holds the keywords
\* given; o is the object as the exception leaves it when one is raised.
Option__init__(opts, attrs) ==
    LET self == [_short_opts |-> <<>>, _long_opts |-> <<>>, container |-> ""]
        given == _check_opt_strings(opts)
    IN IF given.raised # NoError THEN [given EXCEPT !.o = self]
       ELSE
       Then(Then(Then(Then(Then(Then(Then(Then(
           _set_opt_strings(self, given.o),
           LAMBDA o : set_attrs(o, attrs)),
           _check_action), _check_type), _check_choice), _check_dest),
           _check_const), _check_nargs), _check_callback)

\* Option(*opts, **attrs) for a declaration the constructor accepts: the
\* attributes after the constructor's checks have filled in what was left
\* out.  A new Option has no container yet.
Option(opts, attrs) == Option__init__(opts, attrs).o

takes_value(o) == ~IsNone(o.type)

----------------------------------------------------------------------------
(* HelpFormatter (formatters.py).                                          *)

Min(a, b) == IF a < b THEN a ELSE b

Max(a, b) == IF a > b THEN a ELSE b

\* bool(v) for the values a formatter is configured with.
Truthy(v) ==
    CASE "int" \in DOMAIN v -> v.int # 0
      [] "str" \in DOMAIN v -> v.str # <<>>
      [] "bool" \in DOMAIN v -> v.bool
      [] OTHER -> FALSE

PERCENT_DEFAULT == <<"%", "d", "e", "f", "a", "u", "l", "t">>

\* HelpFormatter.__init__(indent_increment, max_help_position, short_first,
\* width): width is only used for the help position (self.width is 180
\* whatever is passed); width - 20 raises TypeError when width is None.
HelpFormatter__init__(kind, indent_increment, max_help_position, short_first, width) ==
    IF IsNone(width)
    THEN [f |-> None, raised |-> "TypeError"]
    ELSE LET pos == Min(max_help_position,
                        Max(width.int - 20, indent_increment * 2))
         IN [f |-> [kind |-> kind, parser |-> FALSE,
                    indent_increment |-> indent_increment,
                    width |-> 180,
                    help_position |-> pos,
                    max_help_position |-> pos,
                    current_indent |-> 0,
                    level |-> 0,
                    help_width |-> None,
                    short_first |-> short_first,
                    default_tag |-> Str(PERCENT_DEFAULT),
                    option_strings |-> <<>>,
                    _short_opt_fmt |-> <<" ">>,
                    _long_opt_fmt |-> <<"=">>],
             raised |-> NoError]

\* IndentedHelpFormatter(indent_increment=2, max_help_position=24,
\* width=None, short_first=1): super().__init__ is called with width and
\* short_first in each other's place.
IndentedHelpFormatter(indent_increment, max_help_position, width, short_first) ==
    HelpFormatter__init__("Indented", indent_increment, max_help_position,
                          width, short_first)

\* TitledHelpFormatter(indent_increment=0, max_help_position=24, width=None,
\* short_first=0), with the same call of super().__init__.
TitledHelpFormatter(indent_increment, max_help_position, width, short_first) ==
    HelpFormatter__init__("Titled", indent_increment, max_help_position,
                          width, short_first)

\* formatter.set_parser(parser)
set_parser(f) == [f EXCEPT !.parser = TRUE]

\* The formatter OptionParser.__init__ makes when it is given none.
ParserFormatter == set_parser(TitledHelpFormatter(0, 24, None, IntVal(0)).f)

indent(f) ==
    [f EXCEPT !.current_indent = @ + f.indent_increment, !.level = @ + 1]

dedent(f) ==
    [f EXCEPT !.current_indent = @ - f.indent_increment, !.level = @ - 1]

\* c.upper() for the letters destinations are made of.
UpperChar(c) ==
    CASE c = "a" -> "A" [] c = "b" -> "B" [] c = "d" -> "D" [] c = "e" -> "E"
      [] c = "f" -> "F" [] c = "g" -> "G" [] c = "i" -> "I" [] c = "l" -> "L"
      [] c = "n" -> "N" [] c = "o" -> "O" [] c = "q" -> "Q" [] c = "x" -> "X"
      [] OTHER -> c

Upper(s) == [i \in 1..Len(s) |-> UpperChar(s[i])]

\* sep.join(strs)
RECURSIVE Join(_, _)
Join(sep, strs) ==
    IF strs = <<>> THEN <<>>
    ELSE IF Len(strs) = 1 THEN strs[1]
    ELSE strs[1] \o sep \o Join(sep, Tail(strs))

\* HelpFormatter.format_option_strings(option)
format_option_strings(f, o) ==
    LET metavar == IF Truthy(o.metavar) THEN o.metavar.str ELSE Upper(o.dest.str)
        short_opts == IF takes_value(o)
                      THEN [i \in 1..Len(o._short_opts) |->
                               o._short_opts[i] \o f._short_opt_fmt \o metavar]
                      ELSE o._short_opts
        long_opts == IF takes_value(o)
                     THEN [i \in 1..Len(o._long_opts) |->
                              o._long_opts[i] \o f._long_opt_fmt \o metavar]
                     ELSE o._long_opts
    IN Join(<<",", " ">>, IF Truthy(f.short_first) THEN short_opts \o long_opts
                          ELSE long_opts \o short_opts)

\* The loop of store_option_strings over an option list: the formatter with
\* the strings stored, and max_len.
RECURSIVE store_strings(_, _, _, _)
store_strings(f, reg, opts, max_len) ==
    IF opts = <<>> THEN [f |-> f, max_len |-> max_len]
    ELSE With(format_option_strings(f, reg.options[opts[1]]), LAMBDA strings :
         store_strings(
             [f EXCEPT !.option_strings = (opts[1] :> strings) @@ @],
             reg, Tail(opts),
             Max(max_len, Len(strings) + f.current_indent)))

\* The options of the groups, in the order of the groups.
RECURSIVE group_option_lists(_, _)
group_option_lists(reg, groups) ==
    IF groups = <<>> THEN <<>>
    ELSE reg.option_list[groups[1]] \o group_option_lists(reg, Tail(groups))

\* HelpFormatter.store_option_strings(parser)
store_option_strings(f, reg) ==
    With(store_strings(indent(f), reg, reg.option_list["parser"], 0), LAMBDA a :
    With(store_strings(indent(a.f), reg,
                       group_option_lists(reg, reg.option_groups), a.max_len),
         LAMBDA b :
    With(Min(b.max_len + 2, f.max_help_position), LAMBDA pos :
        [dedent(dedent(b.f)) EXCEPT
            !.help_position = pos,
            !.help_width = IntVal(Max(f.width - pos, 11))])))

\* What a rendering gives: the formatter after it, the pieces of text in
\* their order, and the exception raised ("none" when there is none).
Rendered(f, items) == [f |-> f, items |-> items, raised |-> NoError]

RenderRaised(f, raised) == [f |-> f, items |-> <<>>, raised |-> raised]

\* The next step of a rendering, skipped once an exception is raised; its
\* pieces follow those of the steps before.
ThenRender(r, Step(_)) ==
    IF r.raised # NoError THEN r
    ELSE With(Step(r.f), LAMBDA n : [n EXCEPT !.items = r.items \o @])

\* format_heading(heading): IndentedHelpFormatter writes the heading at the
\* current indent; TitledHelpFormatter underlines it with "=-"[self.level],
\* which raises IndexError from level 2 on.
format_heading(f, heading) ==
    IF f.kind = "Indented"
    THEN Rendered(f, <<[heading |-> heading, indent |-> f.current_indent,
                        underline |-> ""]>>)
    ELSE IF f.level > 1 THEN RenderRaised(f, "IndexError")
    ELSE Rendered(f, <<[heading |-> heading, indent |-> 0,
                        underline |-> IF f.level \in {0, -2} THEN "=" ELSE "-"]>>)

\* HelpFormatter.expand_default(option): the name NO_DEFAULT, which line 140
\* reads, is imported under TYPE_CHECKING only, so it is not defined when
\* the line runs and NameError is raised.
expand_default(f, reg, o) ==
    IF ~f.parser \/ ~Truthy(f.default_tag)
    THEN [ret |-> o.help.str, raised |-> NoError]
    ELSE [ret |-> <<>>, raised |-> "NameError"]

\* HelpFormatter.format_option(option): the option strings, on a line of
\* their own when they are wider than the column left of the help position,
\* and the help text (which textwrap then breaks into lines of help_width).
format_option(f, reg, option) ==
    IF option \notin DOMAIN f.option_strings THEN RenderRaised(f, "KeyError")
    ELSE LET o == reg.options[option]
             opts == f.option_strings[option]
             piece == [option |-> option, opts |-> opts,
                       indent |-> f.current_indent,
                       own_line |-> Len(opts) > f.help_position - f.current_indent - 2,
                       help |-> None]
         IN IF ~Truthy(o.help) THEN Rendered(f, <<piece>>)
            ELSE With(expand_default(f, reg, o), LAMBDA e :
                 IF e.raised # NoError THEN RenderRaised(f, e.raised)
                 ELSE Rendered(f, <<[piece EXCEPT !.help = Str(e.ret)]>>))

\* OptionContainer.format_option_help(formatter): the options of a list in
\* their order (no option of the model has SUPPRESS_HELP as its help).
RECURSIVE container_option_help(_, _, _)
container_option_help(f, reg, opts) ==
    IF opts = <<>> THEN Rendered(f, <<>>)
    ELSE ThenRender(format_option(f, reg, opts[1]),
                    LAMBDA g : container_option_help(g, reg, Tail(opts)))

\* OptionGroup.format_help(formatter), for a group without description;
\* the title of a group is its name.
group_format_help(f, reg, group) ==
    ThenRender(ThenRender(format_heading(f, group),
        LAMBDA g : container_option_help(indent(g), reg, reg.option_list[group])),
        LAMBDA g : Rendered(dedent(g), <<>>))

RECURSIVE groups_format_help(_, _, _)
groups_format_help(f, reg, groups) ==
    IF groups = <<>> THEN Rendered(f, <<>>)
    ELSE ThenRender(group_format_help(f, reg, groups[1]),
                    LAMBDA g : groups_format_help(g, reg, Tail(groups)))

Options_heading == <<"O", "p", "t", "i", "o", "n", "s">>

Usage_heading == <<"U", "s", "a", "g", "e">>

\* OptionParser.format_option_help(formatter); result[:-1] drops the
\* heading when there are neither options nor groups after it.
format_option_help(f, reg) ==
    With(ThenRender(ThenRender(ThenRender(
        format_heading(store_option_strings(f, reg), Options_heading),
        LAMBDA g : container_option_help(indent(g), reg, reg.option_list["parser"])),
        LAMBDA g : groups_format_help(g, reg, reg.option_groups)),
        LAMBDA g : Rendered(dedent(g), <<>>)),
        LAMBDA r : IF r.raised = NoError /\ Len(r.items) = 1
                   THEN [r EXCEPT !.items = <<>>] ELSE r)

\* OptionParser.format_help(formatter), for a parser with the usage it has
\* by default, no description and no epilog.  The usage is formatted by
\* the parser's own formatter: f itself unless it is one the caller built,
\* and then a formatter that has not rendered anything.
format_help(f, reg) ==
    ThenRender(
        IF f.kind = "Indented" /\ f.parser
        THEN Rendered(f, <<[heading |-> Usage_heading, indent |-> 0,
                            underline |-> ""]>>)
        ELSE format_heading(IF f.parser THEN f
                            ELSE [f EXCEPT !.kind = "Titled", !.level = 0],
                            Usage_heading),
        LAMBDA g : format_option_help(f, reg))

----------------------------------------------------------------------------
(* OptionContainer: the registry shared by a parser and its groups.        *)

Parser == "parser"

GroupName(n) == IF n = 1 THEN "group1" ELSE IF n = 2 THEN "group2" ELSE "group3"

\* The registry as one value, for the operators below.
Registry ==
    [options |-> options, option_list |-> option_list,
     option_groups |-> option_groups,
     conflict_handler |-> conflict_handler, _short_opt |-> _short_opt,
     _long_opt |-> _long_opt, defaults |-> defaults]

\* The (opt, c_option) pairs _check_conflict collects before it acts.
conflict_opts(reg, option) ==
    LET o == reg.options[option]
        s == SelectSeq(o._short_opts, LAMBDA opt : DictHas(reg._short_opt, opt))
        l == SelectSeq(o._long_opts, LAMBDA opt : DictHas(reg._long_opt, opt))
    IN [i \in 1..Len(s) |->
            [opt |-> s[i], c_option |-> DictGet(reg._short_opt, s[i])]]
       \o [i \in 1..Len(l) |->
            [opt |-> l[i], c_option |-> DictGet(reg._long_opt, l[i])]]

\* One pass of the "resolve" loop: c_option gives up opt, the table entry is
\* deleted, and an option left without strings leaves its container's list.
resolve_conflict(reg, co) ==
    LET opt == co.opt
        c == co.c_option
        o == reg.options[c]
        isLong == StartsWith(opt, <<"-", "-">>)
        strs == IF isLong THEN o._long_opts ELSE o._short_opts
        tab == IF isLong THEN reg._long_opt ELSE reg._short_opt
        o1 == IF isLong THEN [o EXCEPT !._long_opts = ListRemove(@, opt)]
              ELSE [o EXCEPT !._short_opts = ListRemove(@, opt)]
        reg1 == [reg EXCEPT !.options[c] = o1]
        reg2 == IF isLong THEN [reg1 EXCEPT !._long_opt = DictDel(@, opt)]
                ELSE [reg1 EXCEPT !._short_opt = DictDel(@, opt)]
    IN IF ~Contains(strs, opt) THEN [reg |-> reg, raised |-> "ValueError"]
       ELSE IF ~DictHas(tab, opt) THEN [reg |-> reg1, raised |-> "KeyError"]
       ELSE IF o1._short_opts # <<>> \/ o1._long_opts # <<>>
            THEN [reg |-> reg2, raised |-> NoError]
       ELSE IF ~Contains(reg2.option_list[o1.container], c)
            THEN [reg |-> reg2, raised |-> "ValueError"]
       ELSE [reg |-> [reg2 EXCEPT !.option_list[o1.container] =
                                      ListRemove(@, c)],
             raised |-> NoError]

RECURSIVE resolve_conflicts(_, _)
resolve_conflicts(reg, cos) ==
    IF cos = <<>> THEN [reg |-> reg, raised |-> NoError]
    ELSE With(resolve_conflict(reg, cos[1]), LAMBDA r :
         IF r.raised # NoError THEN r
         ELSE resolve_conflicts(r.reg, Tail(cos)))

_check_conflict(reg, self, option) ==
    LET cos == conflict_opts(reg, option)
    IN IF cos = <<>> THEN [reg |-> reg, raised |-> NoError]
       ELSE IF reg.conflict_handler[self] = "error"
            THEN [reg |-> reg, raised |-> "OptionConflictError"]
       ELSE resolve_conflicts(reg, cos)

\* A faulty table of defaults, in which an option without a default resets
\* the entry of its dest.
add_default_reset(dflts, o) ==
    IF IsNone(o.dest) THEN dflts
    ELSE IF o.default # NO_DEFAULT THEN (o.dest.str :> o.default) @@ dflts
    ELSE (o.dest.str :> None) @@ dflts

\* A faulty table of defaults, which gets an entry only for a default that
\* is given.
add_default_given_only(dflts, o) ==
    IF IsNone(o.dest) THEN dflts
    ELSE IF o.default # NO_DEFAULT THEN (o.dest.str :> o.default) @@ dflts
    ELSE dflts

\* The defaults table after an option with this dest and default is added.
add_default(dflts, o) ==
    IF IsNone(o.dest) THEN dflts
    ELSE IF o.default # NO_DEFAULT THEN (o.dest.str :> o.default) @@ dflts
    ELSE IF o.dest.str \notin DOMAIN dflts THEN (o.dest.str :> None) @@ dflts
    ELSE dflts

\* A faulty add_option, for a group that keeps tables of its own: what is
\* added through a group does not reach the parser's tables.
add_option_unshared(reg, self, option) ==
    LET r == _check_conflict(reg, self, option)
        reg1 == [r.reg EXCEPT !.option_list[self] = Append(@, option),
                              !.options[option].container = self]
        o == reg1.options[option]
        reg2 == [reg1 EXCEPT
                    !._short_opt = DictSetAll(@, o._short_opts, option),
                    !._long_opt = DictSetAll(@, o._long_opts, option),
                    !.defaults = add_default(@, o)]
    IN IF r.raised # NoError THEN r
       ELSE IF self # Parser THEN [reg |-> reg1, raised |-> NoError]
       ELSE [reg |-> reg2, raised |-> NoError]

\* A faulty add_option, which lists the option before it looks for conflicts.
add_option_listed_first(reg, self, option) ==
    LET reg0 == [reg EXCEPT !.option_list[self] = Append(@, option)]
        r == _check_conflict(reg0, self, option)
        o == r.reg.options[option]
        reg2 == [r.reg EXCEPT
                    !.options[option].container = self,
                    !._short_opt = DictSetAll(@, o._short_opts, option),
                    !._long_opt = DictSetAll(@, o._long_opts, option),
                    !.defaults = add_default(@, o)]
    IN IF r.raised # NoError THEN r ELSE [reg |-> reg2, raised |-> NoError]

\* self.add_option(option), option an Option object (one just constructed
\* from strings and keywords, or one handed in).
add_option(reg, self, option) ==
    With(_check_conflict(reg, self, option), LAMBDA r :
        IF r.raised # NoError THEN r
        ELSE LET o == r.reg.options[option]
             IN [reg |-> [r.reg EXCEPT
                            !.option_list[self] = Append(@, option),
                            !.options[option].container = self,
                            !._short_opt = DictSetAll(@, o._short_opts, option),
                            !._long_opt = DictSetAll(@, o._long_opts, option),
                            !.defaults = add_default(@, o)],
                 raised |-> NoError])

has_option(reg, opt_str) ==
    DictHas(reg._short_opt, opt_str) \/ DictHas(reg._long_opt, opt_str)

\* The option a registered string maps to (the short table is asked first).
get_option(reg, opt_str) ==
    IF DictHas(reg._short_opt, opt_str) THEN DictGet(reg._short_opt, opt_str)
    ELSE DictGet(reg._long_opt, opt_str)

remove_option(reg, opt_str) ==
    IF ~has_option(reg, opt_str) THEN [reg |-> reg, raised |-> "ValueError"]
    ELSE
    LET option == get_option(reg, opt_str)
        o == reg.options[option]
        s == DictDelAll(reg._short_opt, o._short_opts)
        l == DictDelAll(reg._long_opt, o._long_opts)
        reg1 == [reg EXCEPT !._short_opt = s.d]
        reg2 == [reg1 EXCEPT !._long_opt = l.d]
    IN IF s.raised # NoError THEN [reg |-> reg1, raised |-> s.raised]
       ELSE IF l.raised # NoError THEN [reg |-> reg2, raised |-> l.raised]
       ELSE IF ~Contains(reg2.option_list[o.container], option)
            THEN [reg |-> reg2, raised |-> "ValueError"]
       ELSE [reg |-> [reg2 EXCEPT !.option_list[o.container] =
                                      ListRemove(@, option)],
             raised |-> NoError]

\* The options that are members of some container's option_list.
LiveOptions(reg) ==
    {id \in DOMAIN reg.options :
        \E c \in DOMAIN reg.option_list : Contains(reg.option_list[c], id)}

OptStrings(o) == o._short_opts \o o._long_opts

----------------------------------------------------------------------------
(* Exceptions, and the abbreviation resolver.                              *)

NoException == [kind |-> NoError, opt_str |-> <<>>, possibilities |-> <<>>]

BadOptionError(opt_str) ==
    [kind |-> "BadOptionError", opt_str |-> opt_str, possibilities |-> <<>>]

AmbiguousOptionError(opt_str, possibilities) ==
    [kind |-> "AmbiguousOptionError", opt_str |-> opt_str,
     possibilities |-> possibilities]

\* A faulty _match_abbrev, which reports the possibilities as the table
\* lists them.
_match_abbrev_unsorted(s, wordmap) ==
    LET possibilities ==
            SelectSeq(DictKeys(wordmap), LAMBDA word : StartsWith(word, s))
    IN IF DictHas(wordmap, s) THEN [ret |-> s, exc |-> NoException]
       ELSE IF Len(possibilities) = 1
            THEN [ret |-> possibilities[1], exc |-> NoException]
       ELSE IF possibilities = <<>>
            THEN [ret |-> <<>>, exc |-> BadOptionError(s)]
       ELSE [ret |-> <<>>, exc |-> AmbiguousOptionError(s, possibilities)]

\* _match_abbrev(s, wordmap): the key returned, or the exception raised.
_match_abbrev(s, wordmap) ==
    LET possibilities ==
            SelectSeq(DictKeys(wordmap), LAMBDA word : StartsWith(word, s))
    IN IF DictHas(wordmap, s) THEN [ret |-> s, exc |-> NoException]
       ELSE IF Len(possibilities) = 1
            THEN [ret |-> possibilities[1], exc |-> NoException]
       ELSE IF possibilities = <<>>
            THEN [ret |-> <<>>, exc |-> BadOptionError(s)]
       ELSE [ret |-> <<>>,
             exc |-> AmbiguousOptionError(s, ListSort(possibilities))]

\* A faulty _match_long_opt, which knows the exact strings only.
_match_long_opt_exact(reg, opt) ==
    IF DictHas(reg._long_opt, opt) THEN [ret |-> opt, exc |-> NoException]
    ELSE [ret |-> <<>>, exc |-> BadOptionError(opt)]

\* parser._match_long_opt(opt)
_match_long_opt(reg, opt) == _match_abbrev(opt, reg._long_opt)

----------------------------------------------------------------------------
(* The option strings and declarations the registration model draws from.  *)

sx == <<"-", "x">>
sy == <<"-", "y">>
lab == <<"-", "-", "a", "b">>
labc == <<"-", "-", "a", "b", "c">>
lad == <<"-", "-", "a", "d">>

\* The declarations handed to add_option(opt_str, ..., kwarg=val, ...).
Decls ==
    { [opts |-> <<sx>>, attrs |-> [ATTRS EXCEPT !.action = Name("store_true")]],
      [opts |-> <<sx, sx>>, attrs |-> ATTRS],
      [opts |-> <<sx, lab>>, attrs |-> [ATTRS EXCEPT !.default = Str(<<"d">>)]],
      [opts |-> <<sy, labc>>,
       attrs |-> [ATTRS EXCEPT !.dest = Str(<<"a", "b">>),
                               !.default = Str(<<"e">>)]],
      [opts |-> <<lad, lab>>, attrs |-> [ATTRS EXCEPT !.dest = Str(<<"a", "b">>)]],
      [opts |-> <<labc>>, attrs |-> [ATTRS EXCEPT !.action = Name("count")]] }

\* The strings remove_option is called with.
RemoveStrings == {sx, sy, lab, labc, lad}

\* The candidates _match_long_opt is called with.
Candidates ==
    { <<"-", "-">>, <<"-", "-", "a">>, lab, labc, lad,
      <<"-", "-", "a", "b", "c", "d">>, <<"-", "-", "b">> }

Containers == {Parser} \cup {option_groups[i] : i \in 1..Len(option_groups)}

----------------------------------------------------------------------------
(* Registration: the state after OptionParser(conflict_handler=...,        *)
(* add_help_option=False), and the calls made on it and on its groups.     *)

NoCall == [op |-> "none", raised |-> NoError, ret |-> <<>>, exc |-> NoException]

NoResult ==
    [kind |-> "none", status |-> 0, values |-> <<>>, args |-> <<>>,
     err |-> NoException]

\* No two calls of parse_args run side by side.
NoThreads == [owner |-> 0, same |-> TRUE, local |-> <<>>]

ParseIdle ==
    /\ threads = NoThreads
    /\ args = <<>>
    /\ rargs = None
    /\ largs = None
    /\ values = None
    /\ aliased = {}
    /\ fired = <<>>
    /\ pc = "idle"
    /\ result = NoResult

InitReg ==
    /\ options = <<>>
    /\ option_list = (Parser :> <<>>)
    /\ option_groups = <<>>
    /\ conflict_handler \in {(Parser :> "error"), (Parser :> "resolve")}
    /\ _short_opt = <<>>
    /\ _long_opt = <<>>
    /\ defaults = <<>>
    /\ allow_interspersed_args = TRUE
    /\ process_default_values = TRUE
    /\ formatter = ParserFormatter
    /\ call = NoCall
    /\ sys_argv = <<>>
    /\ ParseIdle

\* The registry variables take the values of the registry reg.
SetRegistry(reg) ==
    /\ option_list' = reg.option_list
    /\ _short_opt' = reg._short_opt
    /\ _long_opt' = reg._long_opt
    /\ defaults' = reg.defaults

\* self.add_option(opt_str, ..., kwarg=val, ...): a new Option is constructed
\* and added; when the call raises, nobody holds the new object.
AddOption(self, d) ==
    /\ Len(options) < MaxOptions
    /\ Len(option_list[self]) < MaxListLen
    /\ LET id == Len(options) + 1
           reg == [Registry EXCEPT
                      !.options = Append(@, Option(d.opts, d.attrs))]
           r == add_option(reg, self, id)
       IN /\ SetRegistry(r.reg)
          /\ options' = IF r.raised = NoError THEN r.reg.options
                        ELSE SubSeq(r.reg.options, 1, Len(options))
          /\ call' = [NoCall EXCEPT !.op = "add_option", !.raised = r.raised]
    /\ UNCHANGED <<option_groups, conflict_handler>>
    /\ UNCHANGED flagvars
    /\ UNCHANGED parsevars

\* self.add_option(option), option an Option object constructed earlier
\* (registered, removed, or stripped of its strings).
AddOptionInstance(self, id) ==
    /\ Len(option_list[self]) < MaxListLen
    /\ LET r == add_option(Registry, self, id)
       IN /\ SetRegistry(r.reg)
          /\ options' = r.reg.options
          /\ call' = [NoCall EXCEPT !.op = "add_option", !.raised = r.raised]
    /\ UNCHANGED <<option_groups, conflict_handler>>
    /\ UNCHANGED flagvars
    /\ UNCHANGED parsevars

\* self.remove_option(opt_str)
RemoveOption(self, opt_str) ==
    /\ LET r == remove_option(Registry, opt_str)
       IN /\ SetRegistry(r.reg)
          /\ options' = r.reg.options
          /\ call' = [NoCall EXCEPT !.op = "remove_option", !.raised = r.raised]
    /\ UNCHANGED <<option_groups, conflict_handler>>
    /\ UNCHANGED flagvars
    /\ UNCHANGED parsevars

\* parser.add_option_group(title): the new group shares the parser's tables
\* and takes the parser's conflict handler.
AddOptionGroup ==
    /\ Len(option_groups) < MaxGroups
    /\ LET g == GroupName(Len(option_groups) + 1)
       IN /\ option_groups' = Append(option_groups, g)
          /\ option_list' = (g :> <<>>) @@ option_list
          /\ conflict_handler' = (g :> conflict_handler[Parser]) @@ conflict_handler
    /\ call' = [NoCall EXCEPT !.op = "add_option_group"]
    /\ UNCHANGED <<options, _short_opt, _long_opt, defaults>>
    /\ UNCHANGED flagvars
    /\ UNCHANGED parsevars

NextReg ==
    \/ \E self \in Containers, d \in Decls : AddOption(self, d)
    \/ \E self \in Containers, id \in 1..Len(options) : AddOptionInstance(self, id)
    \/ \E self \in Containers, opt_str \in RemoveStrings : RemoveOption(self, opt_str)
    \/ AddOptionGroup

SpecReg == InitReg /\ [][NextReg]_vars

----------------------------------------------------------------------------
(* The abbreviation resolver on the long tables that registration builds.  *)

\* parser._match_long_opt(opt)
MatchLongOpt(opt) ==
    /\ LET r == _match_long_opt(Registry, opt)
       IN call' = [NoCall EXCEPT !.op = "_match_long_opt",
                      !.raised = r.exc.kind, !.ret = r.ret, !.exc = r.exc]
    /\ UNCHANGED regvars
    /\ UNCHANGED flagvars
    /\ UNCHANGED parsevars

NextAbbrev ==
    \/ \E d \in Decls : AddOption(Parser, d)
    \/ \E opt_str \in RemoveStrings : RemoveOption(Parser, opt_str)
    \/ \E opt \in Candidates : MatchLongOpt(opt)

SpecAbbrev == InitReg /\ [][NextAbbrev]_vars

----------------------------------------------------------------------------
(* Values, and the actions of an option.                                   *)

OptionValueError(opt_str, value) ==
    [kind |-> "OptionValueError", opt_str |-> opt_str,
     possibilities |-> <<value>>]

\* The message parser.error is called with directly: "<opt> option requires
\* <nargs> argument(s)" and "<opt> option does not take a value".
UsageError(kind, opt_str) ==
    [kind |-> kind, opt_str |-> opt_str, possibilities |-> <<>>]

RaisedError(kind) == [kind |-> kind, opt_str |-> <<>>, possibilities |-> <<>>]

\* check_choice(option, opt, value)
check_choice(o, opt, value) ==
    IF Contains(o.choices.list, value)
    THEN [ret |-> Str(value), exc |-> NoException]
    ELSE [ret |-> None, exc |-> OptionValueError(opt, value)]

\* The value of a character as a digit; 99 for a character that is none.
DigitOf(c) ==
    CASE c = "0" -> 0 [] c = "1" -> 1 [] c = "2" -> 2 [] c = "3" -> 3
      [] c = "4" -> 4 [] c = "5" -> 5 [] c = "6" -> 6 [] c = "7" -> 7
      [] c = "8" -> 8 [] c = "9" -> 9
      [] c \in {"a", "A"} -> 10 [] c \in {"b", "B"} -> 11
      [] c \in {"c", "C"} -> 12 [] c \in {"d", "D"} -> 13
      [] c \in {"e", "E"} -> 14 [] c \in {"f", "F"} -> 15
      [] OTHER -> 99

\* s.lower(), for the letters a radix prefix is made of.
Lower(s) ==
    [i \in 1..Len(s) |-> IF s[i] = "X" THEN "x" ELSE IF s[i] = "B" THEN "b"
                         ELSE IF s[i] = "O" THEN "o" ELSE s[i]]

\* The number the digits ds denote in the radix, most significant first.
RECURSIVE DigitsValue(_, _, _)
DigitsValue(ds, radix, acc) ==
    IF ds = <<>> THEN acc
    ELSE DigitsValue(Tail(ds), radix, acc * radix + DigitOf(ds[1]))

\* int(val, radix) for a val without blanks and underscores: an optional
\* sign, the prefix of the radix if any, then one digit of the radix or
\* more; anything else is a ValueError.
int(val, radix) ==
    LET signed == val # <<>> /\ val[1] \in {"+", "-"}
        prefix == IF radix = 16 THEN <<"0", "x">>
                  ELSE IF radix = 8 THEN <<"0", "o">>
                  ELSE IF radix = 2 THEN <<"0", "b">> ELSE <<"?">>
    IN With(IF signed THEN Tail(val) ELSE val, LAMBDA body :
       With(IF Lower(Take(body, 2)) = prefix THEN Drop(body, 2) ELSE body,
            LAMBDA ds :
       IF ds = <<>> \/ \E i \in 1..Len(ds) : DigitOf(ds[i]) >= radix
       THEN [ret |-> None, raised |-> "ValueError"]
       ELSE With(DigitsValue(ds, radix, 0), LAMBDA n :
            [ret |-> IntVal(IF signed /\ val[1] = "-" THEN 0 - n ELSE n),
             raised |-> NoError])))

\* A faulty _parse_int, which reads every value in base 10.
_parse_int_decimal(val) == int(val, 10)

\* _parse_num(val, int): the radix is read off the first characters, and
\* the prefix "0b" is taken off.
_parse_int(val) ==
    With(Lower(Take(val, 2)), LAMBDA head :
    With(IF head = <<"0", "x">> THEN 16
         ELSE IF head = <<"0", "b">> THEN 2
         ELSE IF Take(val, 1) = <<"0">> THEN 8
         ELSE 10, LAMBDA radix :
    int(IF radix # 2 THEN val
        ELSE IF Len(val) > 2 THEN Drop(val, 2) ELSE <<"0">>, radix)))

\* The part of s before its first point (all of s when it has none).
RECURSIVE UpToPoint(_)
UpToPoint(s) ==
    IF s = <<>> \/ s[1] = "." THEN <<>> ELSE <<s[1]>> \o UpToPoint(Tail(s))

DecimalDigits == {"0", "1", "2", "3", "4", "5", "6", "7", "8", "9"}

\* s without the zeros at its end.
RECURSIVE StripZeros(_)
StripZeros(s) ==
    IF s # <<>> /\ s[Len(s)] = "0" THEN StripZeros(SubSeq(s, 1, Len(s) - 1))
    ELSE s

\* float(val) for a val without blanks, underscores, exponent, inf and
\* nan: an optional sign, then decimal digits with at most one point among
\* them and one digit at least; anything else is a ValueError.  The
\* number is num / 10^places.
float(val) ==
    LET signed == val # <<>> /\ val[1] \in {"+", "-"}
    IN With(IF signed THEN Tail(val) ELSE val, LAMBDA body :
       With(UpToPoint(body), LAMBDA whole :
       With(StripZeros(SubSeq(body, Len(whole) + 2, Len(body))), LAMBDA frac :
       IF \/ \E i \in 1..Len(body) : body[i] \notin DecimalDigits \cup {"."}
          \/ Cardinality({i \in 1..Len(body) : body[i] = "."}) > 1
          \/ \A i \in 1..Len(body) : body[i] = "."
       THEN [ret |-> None, raised |-> "ValueError"]
       ELSE With(DigitsValue(whole \o frac, 10, 0), LAMBDA n :
            [ret |-> [float |-> [num |-> IF signed /\ val[1] = "-" THEN 0 - n
                                         ELSE n,
                                 places |-> Len(frac)]],
             raised |-> NoError]))))

\* complex(val) for a val that is one number of the forms float reads,
\* followed by "j" or not.
complex(val) ==
    IF val # <<>> /\ val[Len(val)] \in {"j", "J"}
    THEN With(float(IF Len(val) = 1 THEN <<"1">>
                    ELSE SubSeq(val, 1, Len(val) - 1)), LAMBDA im :
         IF im.raised # NoError THEN im
         ELSE [ret |-> [complex |-> [real |-> float(<<"0">>).ret.float,
                                     imag |-> im.ret.float]],
               raised |-> NoError])
    ELSE With(float(val), LAMBDA re :
         IF re.raised # NoError THEN re
         ELSE [ret |-> [complex |-> [real |-> re.ret.float,
                                     imag |-> float(<<"0">>).ret.float]],
               raised |-> NoError])

\* _builtin_cvt[type], the converter applied to value and the name of
\* what it reads.
_builtin_cvt(type, value) ==
    CASE type \in {Name("int"), Name("long")} ->
             [c |-> _parse_int(value), what |-> "integer"]
      [] type = Name("float") ->
             [c |-> float(value), what |-> "floating-point"]
      [] type = Name("complex") ->
             [c |-> complex(value), what |-> "complex"]

\* The OptionValueError of check_builtin: "option {opt}: invalid {what}
\* value: {value!r}".
InvalidValueError(opt, what, value) ==
    ("what" :> what) @@ OptionValueError(opt, value)

\* A faulty check_builtin, which hands a value that is no number on as it is.
check_builtin_lenient(o, opt, value) ==
    With(_builtin_cvt(o.type, value), LAMBDA b :
        IF b.c.raised # NoError THEN [ret |-> Str(value), exc |-> NoException]
        ELSE [ret |-> b.c.ret, exc |-> NoException])

\* check_builtin(option, opt, value)
check_builtin(o, opt, value) ==
    With(_builtin_cvt(o.type, value), LAMBDA b :
        IF b.c.raised # NoError
        THEN [ret |-> None, exc |-> InvalidValueError(opt, b.what, value)]
        ELSE [ret |-> b.c.ret, exc |-> NoException])

\* option.check_value(opt, value): TYPE_CHECKER has "string" (which hands
\* the value on as it is), the four numeric types and "choice".
check_value(o, opt, value) ==
    IF o.type = Name("choice") THEN check_choice(o, opt, value)
    ELSE IF o.type \in {Name("int"), Name("long"), Name("float"),
                         Name("complex")}
         THEN check_builtin(o, opt, value)
    ELSE [ret |-> Str(value), exc |-> NoException]

\* tuple([self.check_value(opt, v) for v in value])
RECURSIVE check_values(_, _, _)
check_values(o, opt, vs) ==
    IF vs = <<>> THEN [ret |-> <<>>, exc |-> NoException]
    ELSE With(check_value(o, opt, vs[1]), LAMBDA h :
         IF h.exc # NoException THEN [ret |-> <<>>, exc |-> h.exc]
         ELSE With(check_values(o, opt, Tail(vs)), LAMBDA t :
              IF t.exc # NoException THEN t
              ELSE [ret |-> <<h.ret>> \o t.ret, exc |-> NoException]))

\* A faulty convert_value, which keeps the first of several values only.
convert_value_first(o, opt, value) ==
    IF IsNone(value) THEN [ret |-> None, exc |-> NoException]
    ELSE check_value(o, opt, IF o.nargs = IntVal(1) THEN value.str
                             ELSE value.tuple[1])

\* Option.convert_value(opt, value): value is None, [str |-> token] when
\* nargs is 1 and [tuple |-> tokens] otherwise.
convert_value(o, opt, value) ==
    IF IsNone(value) THEN [ret |-> None, exc |-> NoException]
    ELSE IF o.nargs = IntVal(1) THEN check_value(o, opt, value.str)
    ELSE With(check_values(o, opt, value.tuple), LAMBDA r :
         [ret |-> Tuple(r.ret), exc |-> r.exc])

\* The names class Values defines: hasattr(values, name) holds for them on
\* every Values, and getattr gives the method (the attributes inherited
\* from object behave likewise, but for __hash__, which is None).
VALUES_METHODS ==
    { <<"_", "_", "i", "n", "i", "t", "_", "_">>,
      <<"_", "_", "s", "t", "r", "_", "_">>,
      <<"_", "_", "r", "e", "p", "r", "_", "_">>,
      <<"_", "_", "e", "q", "_", "_">>,
      <<"_", "u", "p", "d", "a", "t", "e", "_", "c", "a", "r", "e", "f", "u", "l">>,
      <<"_", "u", "p", "d", "a", "t", "e", "_", "l", "o", "o", "s", "e">>,
      <<"_", "u", "p", "d", "a", "t", "e">>,
      <<"r", "e", "a", "d", "_", "m", "o", "d", "u", "l", "e">>,
      <<"r", "e", "a", "d", "_", "f", "i", "l", "e">>,
      <<"e", "n", "s", "u", "r", "e", "_", "v", "a", "l", "u", "e">> }

\* A faulty ensure_value, which installs the value over whatever is there.
ensure_value_overwriting(vals, attr, value) ==
    [values |-> (attr :> value) @@ vals, ret |-> value]

\* Values.ensure_value(attr, value): the Values after the call and what the
\* call returns.  "not hasattr(self, attr) or getattr(self, attr) is None"
\* holds for an attribute of the instance that is None and for a name that
\* neither the instance nor the class has.
ensure_value(vals, attr, value) ==
    IF attr \in DOMAIN vals
    THEN IF IsNone(vals[attr])
         THEN [values |-> (attr :> value) @@ vals, ret |-> value]
         ELSE [values |-> vals, ret |-> vals[attr]]
    ELSE IF attr \in VALUES_METHODS
         THEN [values |-> vals, ret |-> [method |-> attr]]
    ELSE [values |-> (attr :> value) @@ vals, ret |-> value]

\* setattr(values, dest, value)
SetAttr(vals, attr, value) == (attr :> value) @@ vals

\* parser.print_help() renders every listed option; expand_default names
\* NO_DEFAULT, which formatters.py imports under TYPE_CHECKING only, so the
\* rendering of the first option that has help text raises NameError.
print_help_raises(reg) ==
    \E c \in {Parser} \cup {reg.option_groups[i] : i \in 1..Len(reg.option_groups)} :
        \E i \in 1..Len(reg.option_list[c]) :
            LET h == reg.options[reg.option_list[c][i]].help
            IN IsStr(h) /\ h.str # <<>>

\* The parse in progress: the locals of parse_args (which are the objects
\* the parser's rargs, largs and values attributes name) and the defaults
\* table, whose list values an append action can reach through values.
ParseState ==
    [rargs |-> rargs.list, largs |-> largs.list, values |-> values.values,
     defaults |-> defaults, aliased |-> aliased, fired |-> fired, pc |-> pc,
     result |-> result]

\* sys.exit(status) out of parse_args.
Exit(st, status, err) ==
    [st EXCEPT !.pc = "exited",
               !.result = [NoResult EXCEPT !.kind = "exit", !.status = status,
                                           !.err = err]]

\* parser.error(msg): the usage message, then exit status 2.
error(st, err) == Exit(st, 2, err)

\* An exception parse_args does not catch.
Raise(st, err) ==
    [st EXCEPT !.pc = "raised",
               !.result = [NoResult EXCEPT !.kind = "raise", !.status = 1,
                                           !.err = err]]

\* A faulty handler, which lets every exception out of parse_args.
Except_uncaught(st, err) == Raise(st, err)

\* An exception raised inside _process_args: parse_args turns BadOptionError
\* (AmbiguousOptionError is one) and OptionValueError into parser.error.
Except(st, err) ==
    IF err.kind \in {"BadOptionError", "AmbiguousOptionError", "OptionValueError"}
    THEN error(st, err)
    ELSE Raise(st, err)

\* A faulty append, which puts the new value in front.
append_action_prepend(st, dest, x) ==
    LET e == ensure_value(st.values, dest, List(<<>>))
    IN [st EXCEPT !.values = SetAttr(e.values, dest, List(<<x>> \o e.ret.list))]

\* values.ensure_value(dest, []).append(x): the list that is appended to is
\* the defaults table's own list when values was seeded with it.
append_action(st, dest, x) ==
    LET e == ensure_value(st.values, dest, List(<<>>))
        a == IF dest \in DOMAIN st.values /\ ~IsNone(st.values[dest])
             THEN st.aliased ELSE st.aliased \ {dest}
        l == List(Append(e.ret.list, x))
    IN IF ~IsList(e.ret) THEN Raise(st, RaisedError("AttributeError"))
       ELSE [st EXCEPT !.values = SetAttr(e.values, dest, l),
                       !.aliased = a,
                       !.defaults = IF dest \in a THEN SetAttr(@, dest, l) ELSE @]

\* A faulty count, which starts from 1.
count_action_from_one(st, dest) ==
    LET e == ensure_value(st.values, dest, IntVal(1))
    IN [st EXCEPT !.values = SetAttr(@, dest, IntVal(e.ret.int + 1)),
                  !.aliased = @ \ {dest}]

count_action(st, dest) ==
    LET e == ensure_value(st.values, dest, IntVal(0))
        n == IF "int" \in DOMAIN e.ret THEN e.ret.int
             ELSE IF e.ret.bool THEN 1 ELSE 0
    IN IF DOMAIN e.ret \cap {"int", "bool"} = {}
       THEN Raise(st, RaisedError("TypeError"))
       ELSE [st EXCEPT !.values = SetAttr(@, dest, IntVal(n + 1)),
                       !.aliased = @ \ {dest}]

\* A faulty store, which keeps the value the destination already holds.
store_action_first_wins(st, dest, value) ==
    IF dest \in DOMAIN st.values /\ ~IsNone(st.values[dest])
    THEN [st EXCEPT !.aliased = @ \ {dest}]
    ELSE [st EXCEPT !.values = SetAttr(@, dest, value), !.aliased = @ \ {dest}]

store_action(st, dest, value) ==
    [st EXCEPT !.values = SetAttr(@, dest, value), !.aliased = @ \ {dest}]

\* The tokens at the head of the list that do not begin as an option
\* does ("-" and one character more).
RECURSIVE LeadingArguments(_)
LeadingArguments(tokens) ==
    IF tokens = <<>> \/ (Len(tokens[1]) > 1 /\ tokens[1][1] = "-") THEN <<>>
    ELSE <<tokens[1]>> \o LeadingArguments(Tail(tokens))

\* A callback that takes the tokens up to the next option off parser.rargs
\* and stores them in parser.values under the option's dest: the use the
\* attributes rargs, largs and values are kept for (807-819).  st.parser
\* holds the lists the attributes refer to when they are not the lists of
\* the call itself.
vararg_callback(o, st) ==
    IF "parser" \in DOMAIN st
    THEN With(LeadingArguments(st.parser.rargs), LAMBDA taken :
         [st EXCEPT !.parser =
             [rargs |-> Drop(st.parser.rargs, Len(taken)),
              values |-> SetAttr(st.parser.values, o.dest.str, List(taken))]])
    ELSE With(LeadingArguments(st.rargs), LAMBDA taken :
         store_action([st EXCEPT !.rargs = Drop(@, Len(taken))],
                      o.dest.str, List(taken)))

\* self.callback(self, opt, value, parser, *args, **kwargs); a callable
\* other than vararg_callback does nothing.
call_callback(o, st) ==
    IF o.callback = [callable |-> "vararg_callback"] THEN vararg_callback(o, st)
    ELSE st

\* Option.take_action(action, dest, opt, value, values, parser)
take_action(reg, option, opt, value, st) ==
    LET o == reg.options[option]
        action == o.action.name
        dest == o.dest.str
        st1 == [st EXCEPT !.fired = Append(@, [option |-> option, opt |-> opt,
                                               value |-> value])]
    IN CASE action = "store" -> store_action(st1, dest, value)
         [] action = "store_const" -> store_action(st1, dest, o.const)
         [] action = "store_true" -> store_action(st1, dest, Bool(TRUE))
         [] action = "store_false" -> store_action(st1, dest, Bool(FALSE))
         [] action = "append" -> append_action(st1, dest, value)
         [] action = "append_const" -> append_action(st1, dest, o.const)
         [] action = "count" -> count_action(st1, dest)
         [] action = "callback" -> call_callback(o, st1)
         [] action = "help" ->
                IF print_help_raises(reg)
                THEN Raise(st1, RaisedError("NameError"))
                ELSE Exit(st1, 0, NoException)
         [] action = "version" -> Exit(st1, 0, NoException)
         [] OTHER -> Raise(st1, RaisedError("ValueError"))

\* A faulty process, which ends option processing when the value it is
\* handed is "--" or holds "--".
process_separator_lexical(reg, option, opt, value, st) ==
    With(convert_value(reg.options[option], opt, value), LAMBDA c :
        IF c.exc # NoException THEN Except(st, c.exc)
        ELSE With(take_action(reg, option, opt, c.ret, st), LAMBDA s :
             IF s.pc = "running"
                /\ \/ value = Str(<<"-", "-">>)
                   \/ /\ "tuple" \in DOMAIN value
                      /\ \E k \in DOMAIN value.tuple : value.tuple[k] = <<"-", "-">>
             THEN [s EXCEPT !.pc = "finishing"]
             ELSE s))

\* Option.process(opt, value, values, parser)
process(reg, option, opt, value, st) ==
    With(convert_value(reg.options[option], opt, value), LAMBDA c :
        IF c.exc # NoException THEN Except(st, c.exc)
        ELSE take_action(reg, option, opt, c.ret, st))

----------------------------------------------------------------------------
(* The argument-vector processor.                                          *)

DashDash == <<"-", "-">>

\* arg == "--"
IsSeparator(arg) == arg = DashDash

\* arg[0:2] == "--", for an arg that is not the separator
IsLongOpt(arg) == ~IsSeparator(arg) /\ Take(arg, 2) = DashDash

\* arg[:1] == "-" and len(arg) > 1, for an arg that is neither of the above
IsShortOpts(arg) ==
    ~IsSeparator(arg) /\ ~IsLongOpt(arg) /\ Take(arg, 1) = <<"-">> /\ Len(arg) > 1

IsPositional(arg) == ~IsSeparator(arg) /\ ~IsLongOpt(arg) /\ ~IsShortOpts(arg)

\* A faulty split, at the last "=" of the token.
split_value_at_last(arg) ==
    LET i == CHOOSE j \in 1..Len(arg) :
                 arg[j] = "=" /\ \A k \in (j + 1)..Len(arg) : arg[k] # "="
    IN [opt |-> SubSeq(arg, 1, i - 1), next_arg |-> Drop(arg, i)]

\* arg.split("=", 1), for an arg that holds "="
split_value(arg) ==
    LET i == IndexOf(arg, "=")
    IN [opt |-> SubSeq(arg, 1, i - 1), next_arg |-> Drop(arg, i)]

\* A faulty branch, which lets an option that takes no value fire whatever
\* was attached to it.
long_opt_value_ignored(reg, option, opt, had_explicit_value, st) ==
    process(reg, option, opt, None, st)

\* The branches of _process_long_opt for an option that takes no value:
\* elif had_explicit_value: self.error(... "does not take a value")
\* else: value = None
long_opt_without_value(reg, option, opt, had_explicit_value, st) ==
    IF had_explicit_value
    THEN error(st, UsageError("does_not_take_value", opt))
    ELSE process(reg, option, opt, None, st)

_process_long_opt(reg, st) ==
    LET arg == st.rargs[1]
        had_explicit_value == Contains(arg, "=")
        sp == split_value(arg)
        rargs1 == IF had_explicit_value THEN <<sp.next_arg>> \o Tail(st.rargs)
                  ELSE Tail(st.rargs)
        st1 == [st EXCEPT !.rargs = rargs1]
    IN With(_match_long_opt(reg, IF had_explicit_value THEN sp.opt ELSE arg),
            LAMBDA m :
       IF m.exc # NoException THEN Except(st1, m.exc)
       ELSE LET opt == m.ret
                option == DictGet(reg._long_opt, opt)
                o == reg.options[option]
                nargs == o.nargs.int
            IN IF takes_value(o)
               THEN IF Len(rargs1) < nargs
                    THEN error(st1, UsageError("requires_argument", opt))
                    ELSE process(reg, option, opt,
                                 IF nargs = 1 THEN Str(rargs1[1])
                                 ELSE Tuple(Take(rargs1, nargs)),
                                 [st1 EXCEPT !.rargs = Drop(rargs1, nargs)])
               ELSE long_opt_without_value(reg, option, opt,
                                           had_explicit_value, st1))

\* A faulty cluster walk, which forgets the characters after a value-taking
\* option.
rest_of_cluster_lost(arg, i, rargs_) == rargs_

\* if i < len(arg): rargs.insert(0, arg[i:])
rest_of_cluster(arg, i, rargs_) ==
    IF i < Len(arg) THEN <<Drop(arg, i)>> \o rargs_ ELSE rargs_

\* The pass of the loop over arg[1:] that handles the character arg[i - 1]
\* (i as the code counts it after "i += 1"), and the passes after it.
RECURSIVE short_opts_from(_, _, _, _)
short_opts_from(reg, arg, i, st) ==
    LET opt == <<"-", arg[i]>>
        known == DictHas(reg._short_opt, opt)
        option == DictGet(reg._short_opt, opt)
        o == reg.options[option]
        stop == takes_value(o) /\ i < Len(arg)
        nargs == o.nargs.int
    IN IF ~known THEN Except(st, BadOptionError(opt))
       ELSE With(IF takes_value(o)
                 THEN With(rest_of_cluster(arg, i, st.rargs), LAMBDA rargs1 :
                      IF Len(rargs1) < nargs
                      THEN error([st EXCEPT !.rargs = rargs1],
                                 UsageError("requires_argument", opt))
                      ELSE process(reg, option, opt,
                                   IF nargs = 1 THEN Str(rargs1[1])
                                   ELSE Tuple(Take(rargs1, nargs)),
                                   [st EXCEPT !.rargs = Drop(rargs1, nargs)]))
                 ELSE process(reg, option, opt, None, st),
                 LAMBDA st2 :
            IF st2.pc # "running" \/ stop \/ i = Len(arg) THEN st2
            ELSE short_opts_from(reg, arg, i + 1, st2))

_process_short_opts(reg, st) ==
    short_opts_from(reg, st.rargs[1], 2, [st EXCEPT !.rargs = Tail(@)])

\* A faulty separator, which is left in the remaining tokens.
end_of_options_kept(st) == [st EXCEPT !.pc = "finishing"]

\* if arg == "--": del rargs[0]; return
end_of_options(st) == [st EXCEPT !.rargs = Tail(@), !.pc = "finishing"]

\* A faulty non-option pass, which drops the token it stops at.
non_option_dropped(interspersed, st) ==
    IF interspersed THEN [st EXCEPT !.largs = Append(@, st.rargs[1]), !.rargs = Tail(@)]
    ELSE [st EXCEPT !.rargs = Tail(@), !.pc = "finishing"]

\* A faulty non-option pass, which puts the token back at the end of the
\* remaining tokens.
non_option_requeued(interspersed, st) ==
    IF interspersed THEN [st EXCEPT !.rargs = Tail(@) \o <<@[1]>>]
    ELSE [st EXCEPT !.pc = "finishing"]

\* elif self.allow_interspersed_args: largs.append(arg); del rargs[0]
\* else: return
non_option(interspersed, st) ==
    IF interspersed THEN [st EXCEPT !.largs = Append(@, st.rargs[1]), !.rargs = Tail(@)]
    ELSE [st EXCEPT !.pc = "finishing"]

\* One pass of the while loop of _process_args (the test of the loop
\* included): the loop is left with pc "finishing".
_process_args(reg, interspersed, st) ==
    IF st.rargs = <<>> THEN [st EXCEPT !.pc = "finishing"]
    ELSE LET arg == st.rargs[1]
         IN IF IsSeparator(arg) THEN end_of_options(st)
            ELSE IF IsLongOpt(arg) THEN _process_long_opt(reg, st)
            ELSE IF IsShortOpts(arg) THEN _process_short_opts(reg, st)
            ELSE non_option(interspersed, st)

\* parser._get_all_options()
RECURSIVE group_options(_, _)
group_options(reg, groups) ==
    IF groups = <<>> THEN <<>>
    ELSE reg.option_list[groups[1]] \o group_options(reg, Tail(groups))

_get_all_options(reg) ==
    reg.option_list[Parser] \o group_options(reg, reg.option_groups)

\* Option.get_opt_string(): the first long string, or the first short one.
get_opt_string(o) ==
    IF o._long_opts # <<>> THEN o._long_opts[1] ELSE o._short_opts[1]

\* The loop of get_default_values over the options: a default that is a str
\* is replaced by what check_value makes of it.
RECURSIVE process_defaults(_, _, _)
process_defaults(reg, opts, dflts) ==
    IF opts = <<>> THEN [values |-> dflts, exc |-> NoException]
    ELSE LET o == reg.options[opts[1]]
             opt_str == get_opt_string(o)
             isstr == IsStr(o.dest) /\ o.dest.str \in DOMAIN dflts
                      /\ IsStr(dflts[o.dest.str])
         IN IF ~isstr THEN process_defaults(reg, Tail(opts), dflts)
            ELSE With(check_value(o, opt_str, dflts[o.dest.str].str), LAMBDA c :
                 IF c.exc # NoException THEN [values |-> dflts, exc |-> c.exc]
                 ELSE process_defaults(reg, Tail(opts),
                                       SetAttr(dflts, o.dest.str, c.ret)))

\* A faulty get_default_values, which never converts a default.
get_default_values_unprocessed(reg, pdv) ==
    [values |-> reg.defaults, exc |-> NoException]

get_default_values(reg, pdv) ==
    IF ~pdv THEN [values |-> reg.defaults, exc |-> NoException]
    ELSE process_defaults(reg, _get_all_options(reg), reg.defaults)

\* parse_args(args) up to the call of _process_args: the token list is a
\* copy of args, or sys.argv[1:] when args is empty or None; the Values are
\* the processed defaults.
parse_args_enter(reg, pdv, a, argv) ==
    With(get_default_values(reg, pdv), LAMBDA dv :
    With([rargs |-> IF a # <<>> THEN a ELSE argv, largs |-> <<>>,
          values |-> dv.values, defaults |-> reg.defaults,
          aliased |-> {d \in DOMAIN reg.defaults : IsList(reg.defaults[d])},
          fired |-> <<>>, pc |-> "running", result |-> NoResult], LAMBDA st :
    IF dv.exc # NoException THEN Raise(st, dv.exc) ELSE st))

\* args = largs + rargs; return self.check_values(values, args)
parse_args_return(st) ==
    [st EXCEPT !.pc = "returned",
               !.result = [NoResult EXCEPT !.kind = "return",
                                           !.values = st.values,
                                           !.args = st.largs \o st.rargs]]

\* The whole of parse_args from a state of the parse on.
RECURSIVE parse_args_from(_, _, _)
parse_args_from(reg, interspersed, st) ==
    IF st.pc = "running"
    THEN parse_args_from(reg, interspersed, _process_args(reg, interspersed, st))
    ELSE IF st.pc = "finishing" THEN parse_args_return(st)
    ELSE st

\* How parser.parse_args(a) ends.
parse_args(reg, interspersed, pdv, a, argv) ==
    parse_args_from(reg, interspersed, parse_args_enter(reg, pdv, a, argv)).result

----------------------------------------------------------------------------
(* The parser the argument-vector model runs: its declarations, and the    *)
(* tokens its vectors are made of.                                         *)

tv == <<"-", "v">>
to == <<"-", "o">>
ta == <<"-", "a">>
tb == <<"-", "b">>
tx == <<"x">>
ty == <<"y">>
tvo == <<"-", "v", "o">>
tvz == <<"-", "v", "z">>
tox == <<"-", "o", "x">>
lverbose == <<"-", "-", "v", "e", "r", "b", "o", "s", "e">>
loutput == <<"-", "-", "o", "u", "t", "p", "u", "t">>
lout == <<"-", "-", "o", "u", "t">>
lou == <<"-", "-", "o", "u">>
lname == <<"-", "-", "n", "a", "m", "e">>
lna == <<"-", "-", "n", "a">>
lbogus == <<"-", "-", "b", "o", "g", "u", "s">>
report_txt == <<"r", "e", "p", "o", "r", "t", ".", "t", "x", "t">>
extra == <<"e", "x", "t", "r", "a">>
pos1 == <<"p", "o", "s", "1">>
pos2 == <<"p", "o", "s", "2">>

\* name=value
WithValue(name, value) == name \o <<"=">> \o value

\* parser.add_option("-v", "--verbose", action="store_true") and the rest:
\* --out is declared after --output, and --out and --name have no short
\* string; --name takes two values.
ParseDecls ==
    << [opts |-> <<tv, lverbose>>,
        attrs |-> [ATTRS EXCEPT !.action = Name("store_true")]],
       [opts |-> <<to, loutput>>, attrs |-> ATTRS],
       [opts |-> <<ta>>, attrs |-> ATTRS],
       [opts |-> <<tb>>, attrs |-> ATTRS],
       [opts |-> <<lout>>, attrs |-> ATTRS],
       [opts |-> <<lname>>, attrs |-> [ATTRS EXCEPT !.nargs = IntVal(2)]] >>

\* OptionParser(add_help_option=False): nothing registered, policy "error".
EmptyRegistry ==
    [options |-> <<>>, option_list |-> (Parser :> <<>>), option_groups |-> <<>>,
     conflict_handler |-> (Parser :> "error"), _short_opt |-> <<>>,
     _long_opt |-> <<>>, defaults |-> <<>>]

\* for d in decls: parser.add_option(*d.opts, **d.attrs)
RECURSIVE add_options(_, _)
add_options(reg, decls) ==
    IF decls = <<>> THEN reg
    ELSE LET id == Len(reg.options) + 1
             reg1 == [reg EXCEPT !.options =
                         Append(@, Option(decls[1].opts, decls[1].attrs))]
         IN add_options(add_option(reg1, Parser, id).reg, Tail(decls))

\* The tokens of the vectors that are enumerated up to MaxArgs tokens.
Tokens ==
    { DashDash, tv, to, tvo, tvz, tx, WithValue(loutput, tx), lna, lbogus }

RECURSIVE VectorsOfLen(_)
VectorsOfLen(n) ==
    IF n = 0 THEN {<<>>}
    ELSE {Append(v, t) : v \in VectorsOfLen(n - 1), t \in Tokens}

\* The vectors of the scenarios of the documentation.
Scenarios ==
    { <<tv, WithValue(loutput, report_txt), extra>>,
      <<tvo, report_txt, extra>>,
      <<tv, to, report_txt, extra>>,
      <<ta, tx, pos1, tb, ty, pos2>>,
      <<tox, lout, tx>>,
      <<WithValue(loutput, WithValue(tx, ty)), tx>>,
      <<WithValue(lna, tx), ty, <<"-">>, tv>>,
      <<WithValue(lname, tx)>>,
      <<WithValue(lverbose, tx), tx>>,
      <<to, DashDash, tv>>,
      <<tv, to>>,
      <<lou, tx>>,
      <<tx, WithValue(lou, tx)>>,
      <<WithValue(loutput, DashDash), tv>>,
      <<to \o DashDash, tv>>,
      <<lna, tx, DashDash, tv>> }

Vectors == UNION {VectorsOfLen(n) : n \in 0..MaxArgs} \cup Scenarios

SysArgvs == {<<>>, <<tv>>}

----------------------------------------------------------------------------
(* parse_args as a machine: the call is entered, each pass of the loop of  *)
(* _process_args is a step, and the call returns, exits or raises.         *)

InitParse ==
    LET reg == add_options(EmptyRegistry, ParseDecls)
    IN /\ options = reg.options
       /\ option_list = reg.option_list
       /\ option_groups = reg.option_groups
       /\ conflict_handler = reg.conflict_handler
       /\ _short_opt = reg._short_opt
       /\ _long_opt = reg._long_opt
       /\ defaults = reg.defaults
       /\ allow_interspersed_args = TRUE
       /\ process_default_values = TRUE
       /\ formatter = ParserFormatter
       /\ call = NoCall
       /\ sys_argv \in SysArgvs
       /\ ParseIdle

\* The variables of the parse take the values of the parse state st.
SetParse(st) ==
    /\ UNCHANGED threads
    /\ rargs' = List(st.rargs)
    /\ largs' = List(st.largs)
    /\ values' = [values |-> st.values]
    /\ defaults' = st.defaults
    /\ aliased' = st.aliased
    /\ fired' = st.fired
    /\ pc' = st.pc
    /\ result' = st.result

\* No call of parse_args has been made yet.
NoParse == pc = "idle"

\* parser.enable_interspersed_args()
EnableInterspersedArgs ==
    /\ NoParse
    /\ allow_interspersed_args' = TRUE
    /\ UNCHANGED <<process_default_values, call, formatter>>
    /\ UNCHANGED regvars
    /\ UNCHANGED parsevars

\* parser.disable_interspersed_args()
DisableInterspersedArgs ==
    /\ NoParse
    /\ allow_interspersed_args' = FALSE
    /\ UNCHANGED <<process_default_values, call, formatter>>
    /\ UNCHANGED regvars
    /\ UNCHANGED parsevars

\* parser.parse_args(a), up to the first test of the loop of _process_args.
\* When get_default_values raises, rargs, largs and values are not yet set.
ParseArgs(a) ==
    /\ NoParse
    /\ args' = a
    /\ LET st == parse_args_enter(Registry, process_default_values, a, sys_argv)
       IN IF st.pc = "running" THEN SetParse(st)
          ELSE /\ pc' = st.pc
               /\ result' = st.result
               /\ UNCHANGED <<rargs, largs, values, defaults, aliased, fired, threads>>
    /\ UNCHANGED <<options, option_list, option_groups, conflict_handler,
                   _short_opt, _long_opt, sys_argv, call>>
    /\ UNCHANGED flagvars

\* One pass of the loop of _process_args, whatever the token.
LoopPass ==
    /\ SetParse(_process_args(Registry, allow_interspersed_args, ParseState))
    /\ UNCHANGED <<options, option_list, option_groups, conflict_handler,
                   _short_opt, _long_opt, args, sys_argv, call>>
    /\ UNCHANGED flagvars

Scanning == pc = "running" /\ rargs.list # <<>>

\* The pass of the loop that ends in the parse state st.
Pass(st) ==
    /\ SetParse(st)
    /\ UNCHANGED <<options, option_list, option_groups, conflict_handler,
                   _short_opt, _long_opt, args, sys_argv, call>>
    /\ UNCHANGED flagvars

\* while rargs: ... fails: nothing is left.
LoopEnd ==
    pc = "running" /\ rargs.list = <<>>
        /\ Pass([ParseState EXCEPT !.pc = "finishing"])

\* arg == "--"
Separator ==
    Scanning /\ IsSeparator(rargs.list[1]) /\ Pass(end_of_options(ParseState))

\* arg[0:2] == "--"
LongOpt ==
    Scanning /\ IsLongOpt(rargs.list[1])
        /\ Pass(_process_long_opt(Registry, ParseState))

\* arg[:1] == "-" and len(arg) > 1
ShortOpts ==
    Scanning /\ IsShortOpts(rargs.list[1])
        /\ Pass(_process_short_opts(Registry, ParseState))

\* a non-option token, allow_interspersed_args set
Positional ==
    Scanning /\ IsPositional(rargs.list[1]) /\ allow_interspersed_args
        /\ Pass(non_option(allow_interspersed_args, ParseState))

\* a non-option token, allow_interspersed_args not set
StopEarly ==
    Scanning /\ IsPositional(rargs.list[1]) /\ ~allow_interspersed_args
        /\ Pass(non_option(allow_interspersed_args, ParseState))

\* args = largs + rargs; return self.check_values(values, args)
ParseReturn ==
    /\ pc = "finishing"
    /\ SetParse(parse_args_return(ParseState))
    /\ UNCHANGED <<options, option_list, option_groups, conflict_handler,
                   _short_opt, _long_opt, args, sys_argv, call>>
    /\ UNCHANGED flagvars

NextParse ==
    \/ EnableInterspersedArgs
    \/ DisableInterspersedArgs
    \/ \E a \in Vectors : ParseArgs(a)
    \/ LoopEnd
    \/ Separator
    \/ LongOpt
    \/ ShortOpts
    \/ Positional
    \/ StopEarly
    \/ ParseReturn

SpecParse == InitParse /\ [][NextParse]_vars

----------------------------------------------------------------------------
(* What the claims are stated with.                                        *)

\* The keys of an insertion-ordered dict, as a set.
KeySet(d) == {d[i].k : i \in 1..Len(d)}

\* The keys of d that start with s.
Matching(s, d) == {k \in KeySet(d) : StartsWith(k, s)}

\* l lists exactly the strings of S, each once, in increasing order.
SortedListOf(l, S) ==
    /\ Len(l) = Cardinality(S)
    /\ {l[i] : i \in 1..Len(l)} = S
    /\ \A i \in 1..(Len(l) - 1) : StrLess(l[i], l[i + 1])

\* The strings of a list, as a set.
StringSet(l) == {l[i] : i \in 1..Len(l)}

\* The strings of a declaration that are registered already.
Colliding(opts) == {s \in StringSet(opts) : has_option(Registry, s)}

----------------------------------------------------------------------------
(* The abbreviation resolver (SpecAbbrev).                                 *)

\* C5: for every candidate s and every long table, the resolver returns s
\* when s is a key (even when s is a prefix of other keys); otherwise the
\* single key that starts with s when there is exactly one; it fails with
\* BadOptionError carrying s when there is none, and with
\* AmbiguousOptionError carrying s and exactly the matching keys in sorted
\* order when there are two or more.  The outcome is a function of s and of
\* the table as it is at the call, and the call leaves the table as it was.
C5_MatchAbbrevContract ==
    [][\A s \in Candidates :
          MatchLongOpt(s) =>
             LET m == Matching(s, _long_opt)
                 r == call'
             IN /\ _long_opt' = _long_opt /\ _short_opt' = _short_opt
                /\ s \in KeySet(_long_opt) =>
                      r.raised = NoError /\ r.ret = s
                /\ (s \notin KeySet(_long_opt) /\ Cardinality(m) = 1) =>
                      r.raised = NoError /\ r.ret \in m
                /\ m = {} =>
                      r.raised = "BadOptionError" /\ r.exc = BadOptionError(s)
                /\ (s \notin KeySet(_long_opt) /\ Cardinality(m) >= 2) =>
                      /\ r.raised = "AmbiguousOptionError"
                      /\ r.exc.opt_str = s
                      /\ SortedListOf(r.exc.possibilities, m)]_vars

\* An ambiguous candidate has been resolved against a table that does not
\* list its matches in sorted order.
C5_Witness ==
    /\ call.op = "_match_long_opt"
    /\ call.raised = "AmbiguousOptionError"
    /\ Len(call.exc.possibilities) = 2
    /\ DictKeys(_long_opt) = <<labc, lab>>

----------------------------------------------------------------------------
(* Registration (SpecReg).                                                 *)

\* C8: under the "error" policy, add_option of an option one of whose
\* strings is registered already (by the parser or by a group, the tables
\* being shared) fails with OptionConflictError and leaves the option
\* lists, the short and long tables and the defaults table as they were.
C8_ErrorPolicyRejects ==
    [][\A self \in Containers :
          /\ \A d \in Decls :
                (/\ conflict_handler[self] = "error"
                 /\ Colliding(d.opts) # {}
                 /\ AddOption(self, d)) =>
                    /\ call'.raised = "OptionConflictError"
                    /\ UNCHANGED <<option_list, _short_opt, _long_opt, defaults>>
          /\ \A id \in 1..Len(options) :
                (/\ conflict_handler[self] = "error"
                 /\ Colliding(OptStrings(options[id])) # {}
                 /\ AddOptionInstance(self, id)) =>
                    /\ call'.raised = "OptionConflictError"
                    /\ UNCHANGED <<option_list, _short_opt, _long_opt, defaults>>
      ]_vars

\* A registration has just been refused in a parser that has a group, with
\* both tables in use.
C8_Witness ==
    /\ call.op = "add_option"
    /\ call.raised = "OptionConflictError"
    /\ conflict_handler[Parser] = "error"
    /\ option_groups # <<>>
    /\ _short_opt # <<>>
    /\ _long_opt # <<>>

\* C9: under the "resolve" policy, add_option of a new option that collides
\* on a string s succeeds; afterwards s maps to the new option, the earlier
\* owner of s no longer lists s but keeps its other strings registered, and
\* the earlier owner is out of its container's list exactly when it has no
\* string left.
C9_ResolveMovesString ==
    [][\A self \in Containers, d \in Decls :
          (/\ conflict_handler[self] = "resolve"
           /\ Colliding(d.opts) # {}
           /\ AddOption(self, d)) =>
              /\ call'.raised = NoError
              /\ \A s \in Colliding(d.opts) :
                    LET old == get_option(Registry, s)
                        kept == StringSet(OptStrings(options[old]))
                                   \ Colliding(d.opts)
                    IN /\ has_option(Registry', s)
                       /\ get_option(Registry', s) = Len(options) + 1
                       /\ ~Contains(OptStrings(options'[old]), s)
                       /\ \A t \in kept :
                             /\ Contains(OptStrings(options'[old]), t)
                             /\ has_option(Registry', t)
                             /\ get_option(Registry', t) = old
                       /\ (old \in LiveOptions(Registry')) <=> (kept # {})
      ]_vars

\* C10: no two distinct live options (members of the list of the parser or
\* of a group) claim the same short or long string.
C10_NoSharedString ==
    \A a, b \in LiveOptions(Registry) :
        a # b => StringSet(OptStrings(options[a]))
                    \cap StringSet(OptStrings(options[b])) = {}

----------------------------------------------------------------------------
(* The argument-vector processor (SpecParse).                              *)

\* The vector parse_args works on.
TokenVector == IF args # <<>> THEN args ELSE sys_argv

\* A token that is neither "--" nor an option: it does not start with "-",
\* or it is "-" alone.
NonOption(tok) == tok # DashDash /\ (Len(tok) <= 1 \/ tok[1] # "-")

\* The part of a long token before its first "=" (the whole token when it
\* has none), and what follows that part.
NamePart(tok) ==
    IF Contains(tok, "=") THEN SubSeq(tok, 1, IndexOf(tok, "=") - 1) ELSE tok

ValuePart(tok) == Drop(tok, IndexOf(tok, "="))

\* The registered long string that name selects, for a name that is
\* registered or is the prefix of exactly one registered string.
Selects(name) ==
    name \in KeySet(_long_opt) \/ Cardinality(Matching(name, _long_opt)) = 1

Selected(name) ==
    IF name \in KeySet(_long_opt) THEN name
    ELSE CHOOSE k \in Matching(name, _long_opt) : TRUE

\* The pass of the loop that is about to run, had the head of the remaining
\* tokens been replaced by the tokens toks.
PassWithHead(toks) ==
    _process_args(Registry, allow_interspersed_args,
                  [ParseState EXCEPT !.rargs = toks \o Tail(@)])

\* The result of the documentation's scenario: verbose set, output
\* "report.txt", every other destination None, leftover ["extra"].
ScenarioResult ==
    [NoResult EXCEPT
        !.kind = "return",
        !.values = [d \in DOMAIN defaults |->
                       IF d = Drop(lverbose, 2) THEN Bool(TRUE)
                       ELSE IF d = Drop(loutput, 2) THEN Str(report_txt)
                       ELSE None],
        !.args = <<extra>>]

\* The call returns what is left: largs, then the tokens not scanned.
ReturnsLeftover ==
    pc = "finishing" =>
        /\ pc' = "returned"
        /\ result'.kind = "return"
        /\ result'.args = largs.list \o rargs.list
        /\ result'.values = values.values
        /\ fired' = fired

\* C1 (amended): a "--" that the scan meets at the head of the remaining tokens stops
\* option processing, whatever follows it: the "--" is dropped, no action
\* fires from then on, and the call returns the leftovers collected so far
\* followed by every token after the "--", verbatim and in order.
C1_SeparatorStops ==
    [][/\ (Scanning /\ rargs.list[1] = DashDash) =>
              /\ pc' = "finishing"
              /\ rargs' = List(Tail(rargs.list))
              /\ UNCHANGED <<largs, values, fired>>
       /\ ReturnsLeftover
       /\ (pc' = "returned" /\ TokenVector' # <<>>
              /\ TokenVector'[1] = DashDash) =>
              /\ result'.args = Tail(TokenVector')
              /\ fired' = <<>>]_vars

\* A call has returned whose "--" came after a leftover and before a token
\* that looks like an option.
C1_Witness ==
    /\ pc = "returned"
    /\ args = <<tx, DashDash, tv>>
    /\ allow_interspersed_args
    /\ result.args = <<tx, tv>>
    /\ fired = <<>>

\* C1 as it is worded, for every "--" of the vector: the call returns some
\* of the tokens before the first "--", then every token after it, and so
\* never the "--" itself.
C1_AnySeparatorStops ==
    (pc = "returned" /\ Contains(TokenVector, DashDash)) =>
        LET i == IndexOf(TokenVector, DashDash)
            n == Len(TokenVector) - i
            k == Len(result.args) - n
        IN /\ k >= 0
           /\ k <= i - 1
           /\ SubSeq(result.args, k + 1, Len(result.args)) = Drop(TokenVector, i)

\* C2: with interspersed arguments allowed a non-option token goes to the
\* leftovers and the scan goes on; with interspersed arguments not allowed
\* the scan stops at the first non-option token, which is returned with
\* everything after it, untouched, and no action fires any more.  The
\* vector -a x pos1 -b y pos2 gives [pos1, pos2] in the first case and
\* [pos1, -b, y, pos2] in the second.
C2_Interspersed ==
    [][/\ (Scanning /\ NonOption(rargs.list[1]) /\ allow_interspersed_args) =>
              /\ pc' = "running"
              /\ largs' = List(Append(largs.list, rargs.list[1]))
              /\ rargs' = List(Tail(rargs.list))
              /\ UNCHANGED <<values, fired>>
       /\ (Scanning /\ NonOption(rargs.list[1]) /\ ~allow_interspersed_args) =>
              /\ pc' = "finishing"
              /\ UNCHANGED <<rargs, largs, values, fired>>
       /\ ReturnsLeftover
       /\ (pc' = "returned" /\ args' = <<ta, tx, pos1, tb, ty, pos2>>) =>
              IF allow_interspersed_args
              THEN /\ result'.args = <<pos1, pos2>>
                   /\ Len(fired') = 2
                   /\ result'.values[<<"b">>] = Str(ty)
              ELSE /\ result'.args = <<pos1, tb, ty, pos2>>
                   /\ Len(fired') = 1
                   /\ result'.values[<<"b">>] = None]_vars

\* The scenario's vector has been parsed with interspersed arguments not
\* allowed.
C2_Witness ==
    /\ pc = "returned"
    /\ args = <<ta, tx, pos1, tb, ty, pos2>>
    /\ ~allow_interspersed_args
    /\ result.args = <<pos1, tb, ty, pos2>>

\* C3: a long token name=value whose name selects an option that takes a
\* value is handled as the two tokens name, value would be (value being
\* what follows the first "="): the pass ends in the same state, so that the
\* Values and the leftover are the same.  With -v/--verbose store_true and
\* -o/--output store, [-v, --output=report.txt, extra] gives verbose True,
\* output "report.txt" and leftover [extra].
C3_ExplicitValue ==
    [][/\ (/\ Scanning
           /\ IsLongOpt(rargs.list[1])
           /\ Contains(rargs.list[1], "=")
           /\ Selects(NamePart(rargs.list[1]))
           /\ takes_value(options[DictGet(_long_opt,
                                          Selected(NamePart(rargs.list[1])))])) =>
              SetParse(PassWithHead(<<NamePart(rargs.list[1]),
                                      ValuePart(rargs.list[1])>>))
       /\ (pc' = "returned"
              /\ args' = <<tv, WithValue(loutput, report_txt), extra>>) =>
              result' = ScenarioResult]_vars

\* The scenario's vector has been parsed.
C3_Witness ==
    /\ pc = "returned"
    /\ args = <<tv, WithValue(loutput, report_txt), extra>>
    /\ result.values[Drop(loutput, 2)] = Str(report_txt)

\* The short option a character of a cluster names.
ShortKnown(ch) == DictHas(_short_opt, <<"-", ch>>)

ShortOption(ch) == DictGet(_short_opt, <<"-", ch>>)

\* The character names a registered option that takes no value and stores.
IsFlag(ch) ==
    /\ ShortKnown(ch)
    /\ ~takes_value(options[ShortOption(ch)])
    /\ options[ShortOption(ch)].action.name \in STORE_ACTIONS

\* The position of the first character of the cluster c that is not a flag,
\* 0 when every character is one.
WalkStop(c) ==
    IF \A k \in 2..Len(c) : IsFlag(c[k]) THEN 0
    ELSE CHOOSE k \in 2..Len(c) :
             ~IsFlag(c[k]) /\ \A j \in 2..(k - 1) : IsFlag(c[j])

\* The actions of the flags at the positions 2..n of the cluster c.
FlagsFired(c, n) ==
    [i \in 1..(n - 1) |->
        [option |-> ShortOption(c[i + 1]), opt |-> <<"-", c[i + 1]>>,
         value |-> None]]

\* C4: a short cluster is walked character by character after its "-": the
\* options that take no value fire in order and the walk goes on; at the
\* first option that takes a (string) value the characters left in the
\* token, if any, are its first value token, otherwise the value is taken
\* from the tokens that follow, and the walk of the cluster is over.  So
\* -vo report.txt, -v -o report.txt and -v --output=report.txt give the
\* same Values and leftover.
C4_ShortCluster ==
    [][/\ (Scanning /\ IsShortOpts(rargs.list[1])) =>
              LET c == rargs.list[1]
                  k == WalkStop(c)
                  rest == Tail(rargs.list)
                  o == options[ShortOption(c[k])]
                  n == o.nargs.int
                  vt == IF k < Len(c) THEN <<Drop(c, k)>> \o rest ELSE rest
              IN /\ k = 0 =>
                       /\ pc' = "running"
                       /\ fired' = fired \o FlagsFired(c, Len(c))
                       /\ rargs' = List(rest)
                       /\ largs' = largs
                 /\ (/\ k > 0
                     /\ ShortKnown(c[k])
                     /\ o.type = Name("string")
                     /\ Len(vt) >= n) =>
                       /\ pc' = "running"
                       /\ fired' = fired \o FlagsFired(c, k - 1) \o
                             <<[option |-> ShortOption(c[k]),
                                opt |-> <<"-", c[k]>>,
                                value |-> IF n = 1 THEN Str(vt[1])
                                          ELSE Tuple([i \in 1..n |-> Str(vt[i])])]>>
                       /\ rargs' = List(Drop(vt, n))
                       /\ largs' = largs
                 /\ (/\ k > 0
                     /\ ShortKnown(c[k])
                     /\ o.type = Name("string")
                     /\ Len(vt) < n) =>
                       /\ pc' = "exited"
                       /\ result'.status = 2
                       /\ fired' = fired \o FlagsFired(c, k - 1)
       /\ (pc' = "returned"
              /\ args' \in { <<tvo, report_txt, extra>>,
                             <<tv, to, report_txt, extra>>,
                             <<tv, WithValue(loutput, report_txt), extra>> }) =>
              result' = ScenarioResult]_vars

\* The clustered vector of the scenario has been parsed.
C4_Witness ==
    /\ pc = "returned"
    /\ args = <<tvo, report_txt, extra>>
    /\ result = ScenarioResult
    /\ Len(fired) = 2

\* C6 (amended): when a long token's name is not a registered string and is
\* the prefix of exactly one registered string, which belongs to an option
\* declared with long strings only, the pass ends as it would, had the token
\* given that string in full; when the name is not a registered string and
\* is the prefix of two or more registered strings, the call exits with
\* status 2 on an AmbiguousOptionError that carries the name and exactly
\* the matching strings, sorted, and no action fires.
C6_Abbreviation ==
    [][(Scanning /\ IsLongOpt(rargs.list[1])) =>
          LET tok == rargs.list[1]
              name == NamePart(tok)
              m == Matching(name, _long_opt)
              full == CHOOSE k \in m : TRUE
              owner == options[DictGet(_long_opt, full)]
          IN /\ (/\ name \notin KeySet(_long_opt)
                 /\ Cardinality(m) = 1
                 /\ owner._short_opts = <<>>) =>
                    SetParse(PassWithHead(<<full \o Drop(tok, Len(name))>>))
             /\ (name \notin KeySet(_long_opt) /\ Cardinality(m) >= 2) =>
                    /\ pc' = "exited"
                    /\ result'.status = 2
                    /\ result'.err.kind = "AmbiguousOptionError"
                    /\ result'.err.opt_str = name
                    /\ SortedListOf(result'.err.possibilities, m)
                    /\ fired' = fired]_vars

\* --na x x has been parsed: the two values went to --name.
C6_Witness ==
    /\ pc = "returned"
    /\ args = <<lna, tx, tx>>
    /\ result.values[Drop(lname, 2)] = Tuple(<<Str(tx), Str(tx)>>)
    /\ result.args = <<>>

\* C6 as it is worded: a long token whose name is the prefix of two or more
\* registered strings ends the call with an AmbiguousOptionError.
C6_AnySharedPrefixFails ==
    [][(/\ Scanning
        /\ IsLongOpt(rargs.list[1])
        /\ Cardinality(Matching(NamePart(rargs.list[1]), _long_opt)) >= 2) =>
           /\ pc' = "exited"
           /\ result'.err.kind = "AmbiguousOptionError"]_vars

\* C7: a long token whose name is the prefix of no registered long string,
\* and a cluster with a character that names no registered short option,
\* end the call with a BadOptionError that carries the offending option
\* string, which parse_args turns into the exit of the process with status
\* 2: the call does not return, and nothing follows the exit.
C7_UnknownOption ==
    [][/\ (/\ Scanning
           /\ IsLongOpt(rargs.list[1])
           /\ Matching(NamePart(rargs.list[1]), _long_opt) = {}) =>
              /\ pc' = "exited"
              /\ result'.kind = "exit"
              /\ result'.status = 2
              /\ result'.err = BadOptionError(NamePart(rargs.list[1]))
       /\ (/\ Scanning
           /\ IsShortOpts(rargs.list[1])
           /\ WalkStop(rargs.list[1]) > 0
           /\ ~ShortKnown(rargs.list[1][WalkStop(rargs.list[1])])) =>
              /\ pc' = "exited"
              /\ result'.kind = "exit"
              /\ result'.status = 2
              /\ result'.err =
                    BadOptionError(<<"-", rargs.list[1][WalkStop(rargs.list[1])]>>)
       /\ pc # "exited"]_vars

\* -v --bogus has ended with the exit of the process on "--bogus".
C7_Witness ==
    /\ pc = "exited"
    /\ args = <<tv, lbogus>>
    /\ result.status = 2
    /\ result.err = BadOptionError(lbogus)
    /\ Len(fired) = 1

----------------------------------------------------------------------------
(* Groups and the defaults table (SpecReg).                                *)

\* The options that parse_args(a) fires on the registry reg, in order.
FiredBy(reg, a) ==
    LET st == parse_args_from(reg, TRUE, parse_args_enter(reg, TRUE, a, <<>>))
    IN [i \in 1..Len(st.fired) |-> st.fired[i].option]

\* C11: a group works on the parser's own short table, long table and
\* defaults table.  An option added through any container (a group
\* included) is found under each of its strings by has_option and
\* get_option, is the option parse_args fires for that string, and has its
\* dest in the defaults table, with its own default when it has one; and an
\* add_option on any container (the parser, the same or another group) with
\* a string that is registered already is conflict-checked against the
\* owner: refused under "error", and under "resolve" the string goes to the
\* new option when the call succeeds.
C11_GroupsShareTables ==
    [][\A self \in Containers, d \in Decls :
          AddOption(self, d) =>
             LET id == Len(options) + 1
                 o == options'[id]
             IN /\ call'.raised = NoError =>
                      /\ \A s \in StringSet(d.opts) :
                            /\ has_option(Registry', s)
                            /\ get_option(Registry', s) = id
                            /\ FiredBy(Registry', <<s, tx>>) # <<>>
                            /\ FiredBy(Registry', <<s, tx>>)[1] = id
                      /\ o.dest.str \in DOMAIN defaults'
                      /\ d.attrs.default # NO_DEFAULT =>
                            defaults'[o.dest.str] = d.attrs.default
                /\ (Colliding(d.opts) # {} /\ conflict_handler[self] = "error") =>
                      /\ call'.raised = "OptionConflictError"
                      /\ UNCHANGED <<option_list, _short_opt, _long_opt, defaults>>
      ]_vars

\* An option that was added through one group is registered in the shared
\* tables, and an add_option with one of its strings has just been refused
\* while a second group exists.
C11_Witness ==
    /\ Len(option_groups) = 2
    /\ call.op = "add_option"
    /\ call.raised = "OptionConflictError"
    /\ \E id \in 1..Len(options) :
          /\ Contains(option_list[GroupName(1)], id)
          /\ \E s \in StringSet(OptStrings(options[id])) :
                has_option(Registry, s) /\ get_option(Registry, s) = id
    /\ option_list[Parser] = <<>>
    /\ option_list[GroupName(2)] = <<>>

\* The defaults table after a successful add_option of the option o, stated
\* key by key: keys other than o's dest keep their entries; the dest is a
\* key afterwards, with o's default when o has one, with None when o has
\* none and the key is new, and with the entry it had otherwise.
DefaultsAfter(before, after, o) ==
    LET dest == o.dest.str
    IN /\ DOMAIN after = DOMAIN before \cup {dest}
       /\ \A k \in DOMAIN before \ {dest} : after[k] = before[k]
       /\ o.default # NO_DEFAULT => after[dest] = o.default
       /\ (o.default = NO_DEFAULT /\ dest \notin DOMAIN before) =>
             after[dest] = None
       /\ (o.default = NO_DEFAULT /\ dest \in DOMAIN before) =>
             after[dest] = before[dest]

\* C15: on a successful add_option of an option with a dest, the defaults
\* table receives the option's own default when it has one (replacing what
\* the key held) and None when it has none and the key is new; an entry
\* already present for the key is kept when the later option that reuses the
\* key has no default of its own.  The other keys are left alone.
C15_DefaultsOnAdd ==
    [][\A self \in Containers :
          /\ \A d \in Decls :
                (AddOption(self, d) /\ call'.raised = NoError) =>
                    DefaultsAfter(defaults, defaults', options'[Len(options')])
          /\ \A id \in 1..Len(options) :
                (AddOptionInstance(self, id) /\ call'.raised = NoError) =>
                    DefaultsAfter(defaults, defaults', options'[id])
      ]_vars

\* An option without a default has been added on a dest whose entry, set by
\* an earlier option, is still that option's default.
C15_Witness ==
    /\ call.op = "add_option"
    /\ call.raised = NoError
    /\ Len(options) = 2
    /\ options[1].default = Str(<<"d">>)
    /\ options[2].default = NO_DEFAULT
    /\ options[2].dest = options[1].dest
    /\ option_list[Parser] = <<1, 2>>
    /\ defaults[options[2].dest.str] = Str(<<"d">>)

\* C15 as worded: the table receives the option's own default when it has
\* one, None when it has none and the key is new, and an entry that is
\* already present for a key (a default that is not None) is never
\* overwritten by a later option reusing the key.
C15_NeverOverwritten ==
    [][\A self \in Containers, d \in Decls :
          (AddOption(self, d) /\ call'.raised = NoError) =>
              LET o == options'[Len(options')]
                  dest == o.dest.str
              IN /\ o.default # NO_DEFAULT => defaults'[dest] = o.default
                 /\ (o.default = NO_DEFAULT /\ dest \notin DOMAIN defaults) =>
                       defaults'[dest] = None
                 /\ \A k \in DOMAIN defaults :
                       ~IsNone(defaults[k]) => defaults'[k] = defaults[k]
      ]_vars

----------------------------------------------------------------------------
(* A parser with one option of each action, built the standard way          *)
(* (OptionParser(version=...), help option added), and the vectors it runs. *)

tc == <<"-", "c">>
tcc == <<"-", "c", "c">>
tgc == <<"-", "g", "c">>
tg == <<"-", "g">>
tl == <<"-", "l">>
tlx == <<"-", "l", "x">>
tn == <<"-", "n">>
tn5 == <<"-", "n", "5">>
tp == <<"-", "p">>
tcp == <<"-", "c", "p">>
th == <<"-", "h">>
lcount == <<"-", "-", "c", "o", "u", "n", "t">>
lco == <<"-", "-", "c", "o">>
lgflag == <<"-", "-", "g", "f", "l", "a", "g">>
llist == <<"-", "-", "l", "i", "s", "t">>
lli == <<"-", "-", "l", "i">>
lnum == <<"-", "-", "n", "u", "m">>
lmode == <<"-", "-", "m", "o", "d", "e">>
lpair == <<"-", "-", "p", "a", "i", "r">>
lhelp == <<"-", "-", "h", "e", "l", "p">>
lversion == <<"-", "-", "v", "e", "r", "s", "i", "o", "n">>
n12 == <<"1", "2">>
n017 == <<"0", "1", "7">>
n0x1f == <<"0", "x", "1", "f">>
n08 == <<"0", "8">>
cha == <<"a">>
help_text == <<"h", "e", "l", "p">>

\* The defaults the --num and --list options are declared with.
DefaultConfigs ==
    { [num |-> NO_DEFAULT, list |-> NO_DEFAULT],
      [num |-> Str(<<"7">>), list |-> List(<<Str(<<"d">>)>>)],
      [num |-> Str(tx), list |-> None],
      [num |-> IntVal(3), list |-> List(<<>>)] }

\* self._add_version_option(); self._add_help_option(): both options carry
\* a help text.
StandardDecls ==
    << [opts |-> <<lversion>>,
        attrs |-> [ATTRS EXCEPT !.action = Name("version"),
                                !.help = Str(help_text)]],
       [opts |-> <<th, lhelp>>,
        attrs |-> [ATTRS EXCEPT !.action = Name("help"),
                                !.help = Str(help_text)]] >>

\* parser.add_option("-c", "--count", action="count") and the rest.
ActionDecls(cfg) ==
    << [opts |-> <<tc, lcount>>, attrs |-> [ATTRS EXCEPT !.action = Name("count")]],
       [opts |-> <<tl, llist>>,
        attrs |-> [ATTRS EXCEPT !.action = Name("append"), !.default = cfg.list]],
       [opts |-> <<tn, lnum>>,
        attrs |-> [ATTRS EXCEPT !.type = Name("int"), !.default = cfg.num]],
       [opts |-> <<lmode>>,
        attrs |-> [ATTRS EXCEPT !.choices = List(<<cha, <<"b">>>>)]],
       [opts |-> <<tp, lpair>>, attrs |-> [ATTRS EXCEPT !.nargs = IntVal(2)]] >>

\* group.add_option("-g", "--gflag", action="store_true")
GroupDecls ==
    << [opts |-> <<tg, lgflag>>,
        attrs |-> [ATTRS EXCEPT !.action = Name("store_true")]] >>

\* parser.add_option_group(title)
add_option_group(reg) ==
    LET g == GroupName(Len(reg.option_groups) + 1)
    IN [reg EXCEPT !.option_groups = Append(@, g),
                   !.option_list = (g :> <<>>) @@ @,
                   !.conflict_handler = (g :> reg.conflict_handler[Parser]) @@ @]

\* for d in decls: self.add_option(*d.opts, **d.attrs)
RECURSIVE add_options_to(_, _, _)
add_options_to(reg, self, decls) ==
    IF decls = <<>> THEN reg
    ELSE LET id == Len(reg.options) + 1
             reg1 == [reg EXCEPT !.options =
                         Append(@, Option(decls[1].opts, decls[1].attrs))]
         IN add_options_to(add_option(reg1, self, id).reg, self, Tail(decls))

\* The parser after its construction and the add_option calls.
ActionRegistry(cfg) ==
    LET std == add_options_to(EmptyRegistry, Parser, StandardDecls)
        own == add_options_to(std, Parser, ActionDecls(cfg))
    IN add_options_to(add_option_group(own), GroupName(1), GroupDecls)

\* The tokens of the vectors, by what the vectors exercise.
TokenSets ==
    { {tc, tcc, lcount, lco, tgc, tx},
      {tl, tlx, WithValue(llist, ty), lli, tc, tx},
      {lnum, tn5, n017, WithValue(lnum, tx), WithValue(lmode, cha), lmode},
      {tp, lpair, tcp, tx, tc, DashDash},
      {th, lhelp, lversion, tc, tx, WithValue(lcount, tx)} }

RECURSIVE VectorsOver(_, _)
VectorsOver(T, n) ==
    IF n = 0 THEN {<<>>}
    ELSE {Append(v, t) : v \in VectorsOver(T, n - 1), t \in T}

ActionScenarios ==
    { <<tcc, lcount, lco, tc, tgc>>,
      <<tl, tx, tlx, WithValue(llist, ty), lli, tx>>,
      <<lnum, n12, WithValue(lnum, n0x1f), tn5>>,
      <<lnum, n08>>,
      <<WithValue(lcount, <<>>)>>,
      <<tc, WithValue(lgflag, <<>>), tc>>,
      <<tc, WithValue(lhelp, tx)>>,
      <<lpair, lcount, DashDash, tc>>,
      <<tcp \o tx, ty, tc>> }

ActionVectors ==
    UNION {VectorsOver(T, n) : T \in TokenSets, n \in 0..MaxArgs}
        \cup ActionScenarios

InitActions ==
    \E cfg \in DefaultConfigs :
       LET reg == ActionRegistry(cfg)
       IN /\ options = reg.options
          /\ option_list = reg.option_list
          /\ option_groups = reg.option_groups
          /\ conflict_handler = reg.conflict_handler
          /\ _short_opt = reg._short_opt
          /\ _long_opt = reg._long_opt
          /\ defaults = reg.defaults
          /\ allow_interspersed_args = TRUE
          /\ process_default_values = TRUE
          /\ formatter = ParserFormatter
          /\ call = NoCall
          /\ sys_argv = <<>>
          /\ ParseIdle

\* parser.set_process_default_values(process)
SetProcessDefaultValues(flag) ==
    /\ NoParse
    /\ process_default_values' = flag
    /\ UNCHANGED <<allow_interspersed_args, call, formatter>>
    /\ UNCHANGED regvars
    /\ UNCHANGED parsevars

NextActions ==
    \/ \E flag \in BOOLEAN : SetProcessDefaultValues(flag)
    \/ \E a \in ActionVectors : ParseArgs(a)
    \/ LoopEnd
    \/ Separator
    \/ LongOpt
    \/ ShortOpts
    \/ Positional
    \/ ParseReturn

SpecActions == InitActions /\ [][NextActions]_vars

----------------------------------------------------------------------------
(* The actions of the options (SpecActions).                               *)

\* The option a registered string belongs to.
OptionOf(opt_str) == get_option(Registry, opt_str)

\* How many times the option has fired in the parse so far.
TimesFired(option) ==
    Cardinality({i \in 1..Len(fired) : fired[i].option = option})

\* The places of a vector where the count flag occurs: a long token that is
\* --count or an abbreviation of it, and each "c" of a cluster of short flags.
CountOccurrences(a) ==
    {p \in (1..Len(a)) \X (1..9) :
        LET tok == a[p[1]]
        IN IF IsLongOpt(tok) THEN p[2] = 1 /\ StartsWith(lcount, tok)
           ELSE /\ IsShortOpts(tok)
                /\ p[2] \in 2..Len(tok)
                /\ tok[p[2]] = "c"}

\* The tokens that are positional or made of flags only (no value is taken
\* and nothing stops the scan).
FlagTokens == {tc, tcc, tg, tgc, lcount, lco, lgflag, tx}

\* C12: the count option has no default.  At every point of a parse its
\* destination is None while the option has not fired and k after it has
\* fired k times (the first firing counts from the 0 that ensure_value
\* installs); and when parse_args returns for a vector made of flags and
\* positionals in which the count flag occurs N >= 1 times, in whatever mix
\* of forms (--count, an abbreviation, -c alone, c inside clusters), the
\* destination is N.
C12_CountOccurrences ==
    LET k == TimesFired(OptionOf(lcount))
        N == Cardinality(CountOccurrences(args))
    IN /\ values # None =>
             values.values[<<"c", "o", "u", "n", "t">>] =
                 IF k = 0 THEN None ELSE IntVal(k)
       /\ (pc = "returned" /\ \A i \in 1..Len(args) : args[i] \in FlagTokens) =>
             /\ k = N
             /\ N >= 1 => result.values[<<"c", "o", "u", "n", "t">>] = IntVal(N)

\* parse_args has returned for -cc --count --co -c -gc, with count at 6.
C12_Witness ==
    /\ pc = "returned"
    /\ args = <<tcc, lcount, lco, tc, tgc>>
    /\ result.values[<<"c", "o", "u", "n", "t">>] = IntVal(6)

\* The values the option has fired with in the parse so far, in order.
RECURSIVE ValuesFired(_, _)
ValuesFired(option, fs) ==
    IF fs = <<>> THEN <<>>
    ELSE (IF fs[1].option = option THEN <<fs[1].value>> ELSE <<>>)
            \o ValuesFired(option, Tail(fs))

\* The list the option was declared with as its default: empty when it was
\* declared with no default or with None.
InstalledList(option) ==
    IF IsList(options[option].default) THEN options[option].default.list
    ELSE <<>>

\* C13: at every point of a parse after the append option has fired, the
\* list at its destination is the default list installed before the parse
\* (empty when the default is absent or None) followed by the converted
\* values of its occurrences so far, in the order of the token stream; for
\* -l x -lx --list=y --li x that is the default followed by x, x, y, x.
C13_AppendOrder ==
    LET l == OptionOf(llist)
        got == ValuesFired(l, fired)
    IN /\ (values # None /\ got # <<>>) =>
             values.values[<<"l", "i", "s", "t">>] = List(InstalledList(l) \o got)
       /\ (pc = "returned" /\ args = <<tl, tx, tlx, WithValue(llist, ty), lli, tx>>) =>
             result.values[<<"l", "i", "s", "t">>] =
                 List(InstalledList(l) \o <<Str(tx), Str(tx), Str(ty), Str(tx)>>)

\* parse_args has returned with two values appended after a default list
\* that was not empty.
C13_Witness ==
    /\ pc = "returned"
    /\ InstalledList(OptionOf(llist)) = <<Str(<<"d">>)>>
    /\ result.values[<<"l", "i", "s", "t">>] = List(<<Str(<<"d">>), Str(tx), Str(ty)>>)

----------------------------------------------------------------------------
(* parse_args called again and again on one parser (SpecReparse).          *)

\* The vectors of the repeated calls.
ReparseVectors == { <<tl, tx>>, <<tc, tx>>, <<lnum, n12>>, <<tlx, ty>>, <<tx>> }

\* The earlier call of parse_args has ended: it returned, or the caller
\* caught its SystemExit or its exception.
ParseEnded == pc \in {"returned", "exited", "raised"}

\* parser.parse_args(a) after an earlier call, up to the first test of the
\* loop: the registry is the one the earlier calls have left.  The lists of
\* the defaults table are kept within MaxListLen + 1 values.
Reparse(a) ==
    /\ ParseEnded
    /\ \A d \in DOMAIN defaults :
          IsList(defaults[d]) => Len(defaults[d].list) <= MaxListLen
    /\ args' = a
    /\ LET st == parse_args_enter(Registry, process_default_values, a, sys_argv)
       IN IF st.pc = "running" THEN SetParse(st)
          ELSE /\ pc' = st.pc
               /\ result' = st.result
               /\ fired' = <<>>
               /\ UNCHANGED <<rargs, largs, values, defaults, aliased, threads>>
    /\ UNCHANGED <<options, option_list, option_groups, conflict_handler,
                   _short_opt, _long_opt, sys_argv, call>>
    /\ UNCHANGED flagvars

NextReparse ==
    \/ \E a \in ReparseVectors : ParseArgs(a)
    \/ \E a \in ReparseVectors : Reparse(a)
    \/ LoopEnd
    \/ LongOpt
    \/ ShortOpts
    \/ Positional
    \/ ParseReturn

SpecReparse == InitActions /\ [][NextReparse]_vars

\* The defaults table as the registrations built it: add_default applied to
\* the first n options in the order they were added.
RECURSIVE DefaultsAsBuilt(_)
DefaultsAsBuilt(n) ==
    IF n = 0 THEN <<>>
    ELSE add_default(DefaultsAsBuilt(n - 1), options[n])

\* The parser as it was built: the tables of the state, with the defaults
\* table the registrations built.
FreshRegistry ==
    [Registry EXCEPT !.defaults = DefaultsAsBuilt(Len(options))]

\* C14: whatever calls of parse_args came before, a call that returns
\* returns the Values and the leftover that the same vector gives on the
\* parser as it was built, and the defaults table holds what it held when
\* the parser was built.
C14_ParsesIndependent ==
    pc = "returned" =>
        \A fresh \in {FreshRegistry} :
            /\ defaults = fresh.defaults
            /\ result = parse_args(fresh, allow_interspersed_args,
                                   process_default_values, args, sys_argv)

----------------------------------------------------------------------------
(* The Values a parse starts from (SpecActions).                           *)

\* The options of the parser and of its groups that store at the key d.
OptionsStoringAt(d) ==
    LET every == _get_all_options(Registry)
    IN {every[i] : i \in {j \in DOMAIN every : options[every[j]].dest = Str(d)}}

\* C16: when parse_args starts a parse, the Values it seeds hold, at every
\* key of the defaults table, the default itself, except that with
\* process_default_values on a default that is a str and whose key is the
\* destination of a registered option is held as what that option makes of
\* the same string given on the command line (an int for an option of type
\* int); with process_default_values off every default is held as it is.
C16_DefaultsProcessed ==
    [][ParseArgs(args') /\ pc' = "running" =>
          /\ DOMAIN values'.values = DOMAIN defaults
          /\ \A d \in DOMAIN defaults :
                IF /\ process_default_values
                   /\ IsStr(defaults[d])
                   /\ OptionsStoringAt(d) # {}
                THEN \E o \in OptionsStoringAt(d) :
                        values'.values[d] =
                            convert_value(options[o], get_opt_string(options[o]),
                                          defaults[d]).ret
                ELSE values'.values[d] = defaults[d]]_vars

\* A parse has started with the default "7" of the int option -n held as
\* the integer 7.
C16_Witness ==
    /\ pc = "running"
    /\ fired = <<>>
    /\ process_default_values
    /\ defaults[<<"n", "u", "m">>] = Str(<<"7">>)
    /\ values.values[<<"n", "u", "m">>] = IntVal(7)

\* C17: a parse in which a value of the command line or a default fails
\* its conversion (OptionValueError) ends in parser.error, that is with exit
\* status 2: the OptionValueError never leaves parse_args.
C17_ValueErrorsExit ==
    result.err.kind = "OptionValueError" =>
        /\ pc = "exited"
        /\ result.kind = "exit"
        /\ result.status = 2

\* C18: once a help or a version option has been matched the parse has
\* ended with exit status 0: it neither returns nor raises, and the option
\* is the last one that fired (the options before it in the vector have
\* fired, no token after it is processed).
C18_HelpVersionExit ==
    \A i \in DOMAIN fired :
        options[fired[i].option].action \in {Name("help"), Name("version")} =>
            /\ i = Len(fired)
            /\ pc = "exited"
            /\ result.kind = "exit"
            /\ result.status = 0

----------------------------------------------------------------------------
(* The tokens a value-taking option consumes (SpecActions).                *)

NoValueOption == [found |-> FALSE, opt |-> <<>>, option |-> 0, flags |-> 0,
                  avail |-> <<>>]

\* The value-taking option a long token names, with the tokens its values
\* are taken from: the text after "=" when there is one, then the tokens
\* after arg.
LongValueOption(arg, following) ==
    LET m == _match_long_opt(Registry, IF Contains(arg, "=")
                                       THEN split_value(arg).opt ELSE arg)
    IN IF m.exc # NoException THEN NoValueOption
       ELSE IF ~takes_value(options[DictGet(_long_opt, m.ret)])
            THEN NoValueOption
       ELSE [found |-> TRUE, opt |-> m.ret,
             option |-> DictGet(_long_opt, m.ret), flags |-> 0,
             avail |-> (IF Contains(arg, "=")
                        THEN <<split_value(arg).next_arg>> ELSE <<>>)
                       \o following]

\* The positions of a cluster at which a value-taking option is reached:
\* every character before it names a flag that lets the parse go on.
ValuePositions(arg) ==
    {i \in 2..Len(arg) :
        /\ ShortKnown(arg[i])
        /\ takes_value(options[ShortOption(arg[i])])
        /\ \A j \in 2..(i - 1) :
              /\ ShortKnown(arg[j])
              /\ ~takes_value(options[ShortOption(arg[j])])
              /\ options[ShortOption(arg[j])].action.name \notin {"help", "version"}}

\* The value-taking option a cluster reaches, with the number of flags
\* before it and the tokens its values are taken from: the rest of the
\* cluster when there is one, then the tokens after arg.
ShortValueOption(arg, following) ==
    IF ValuePositions(arg) = {} THEN NoValueOption
    ELSE LET i == CHOOSE j \in ValuePositions(arg) : TRUE
         IN [found |-> TRUE, opt |-> <<"-", arg[i]>>,
             option |-> DictGet(_short_opt, <<"-", arg[i]>>),
             flags |-> i - 2,
             avail |-> (IF i < Len(arg) THEN <<Drop(arg, i)>> ELSE <<>>)
                       \o following]

ValueOption ==
    IF IsLongOpt(rargs.list[1])
    THEN LongValueOption(rargs.list[1], Tail(rargs.list))
    ELSE ShortValueOption(rargs.list[1], Tail(rargs.list))

\* C19: a pass of the loop that matches a long or short option taking a
\* value takes exactly nargs tokens for it, whatever they look like: with
\* enough tokens left, they are removed from rargs and the option fires once
\* with the converted next token (nargs 1) or with the tuple of the
\* converted next nargs tokens in order (nargs > 1), unless a conversion
\* fails; with fewer than nargs left, the parse ends in the error "option
\* requires N argument(s)" (exit status 2) and the option does not fire.
C19_ValueConsumption ==
    [][(LongOpt \/ ShortOpts) /\ ValueOption.found =>
          LET v == ValueOption
              o == options[v.option]
              n == o.nargs.int
              last == fired'[Len(fired')]
          IN IF Len(v.avail) < n
             THEN /\ pc' = "exited"
                  /\ result'.status = 2
                  /\ result'.err = UsageError("requires_argument", v.opt)
                  /\ Len(fired') = Len(fired) + v.flags
                  /\ \A k \in (Len(fired) + 1)..Len(fired') :
                        fired'[k].option # v.option
             ELSE /\ rargs'.list = Drop(v.avail, n)
                  /\ \/ /\ pc' = "exited"
                        /\ result'.status = 2
                        /\ result'.err.kind = "OptionValueError"
                        /\ Len(fired') = Len(fired) + v.flags
                     \/ /\ pc' = "running"
                        /\ Len(fired') = Len(fired) + v.flags + 1
                        /\ last.option = v.option
                        /\ last.opt = v.opt
                        /\ IF n = 1
                           THEN last.value = check_value(o, v.opt, v.avail[1]).ret
                           ELSE /\ DOMAIN last.value = {"tuple"}
                                /\ Len(last.value.tuple) = n
                                /\ \A k \in 1..n :
                                      last.value.tuple[k] =
                                          check_value(o, v.opt, v.avail[k]).ret]_vars

\* --pair has taken the two tokens after it, "--count" and "--", as its
\* value, and the parse has gone on with -c.
C19_Witness ==
    /\ pc = "returned"
    /\ args = <<lpair, lcount, DashDash, tc>>
    /\ Len(fired) = 2
    /\ fired[1].value = Tuple(<<Str(lcount), Str(DashDash)>>)
    /\ result.args = <<>>

----------------------------------------------------------------------------
(* A value attached to a long option that takes none (SpecActions).        *)

\* The long token arg has "=" in it and the text before the "=" names an
\* option that takes no value.
AttachedToFlag(arg) ==
    /\ Contains(arg, "=")
    /\ LET m == _match_long_opt(Registry, split_value(arg).opt)
       IN /\ m.exc = NoException
          /\ ~takes_value(options[DictGet(_long_opt, m.ret)])

\* C20: the pass of the loop over a long token that attaches a value, be
\* it empty, to an option that takes none ends the parse in the error
\* "option does not take a value", exit status 2, and no action fires.
C20_NoValueForFlag ==
    [][LongOpt /\ AttachedToFlag(rargs.list[1]) =>
          /\ pc' = "exited"
          /\ result'.kind = "exit"
          /\ result'.status = 2
          /\ result'.err =
                UsageError("does_not_take_value",
                           _match_long_opt(Registry,
                                           split_value(rargs.list[1]).opt).ret)
          /\ fired' = fired]_vars

\* -c --gflag= -c has ended at --gflag= with that error, after -c fired
\* once.
C20_Witness ==
    /\ pc = "exited"
    /\ args = <<tc, WithValue(lgflag, <<>>), tc>>
    /\ result.status = 2
    /\ result.err = UsageError("does_not_take_value", lgflag)
    /\ Len(fired) = 1

----------------------------------------------------------------------------
(* Option(...) called with every kind of argument (SpecOption).            *)

\* A keyword that is not given.
Absent == [absent |-> TRUE]

\* The option strings the constructor is tried with.
CtorStrings ==
    { <<>>, <<"x">>, <<"-">>, <<"-", "-">>, <<"-", "a">>, <<"a", "-">>,
      <<"-", "a", "b">>, <<"-", "-", "a">>, <<"-", "-", "a", "-", "b">>,
      <<"-", "-", "-", "a">> }

MaxOptStrings == 2

OptTuples == UNION {[1..n -> CtorStrings] : n \in 0..MaxOptStrings}

\* The values each keyword is tried with.
KeywordChoices ==
    [action : {Absent, Name("bogus")} \cup {Name(a) : a \in ALL_ACTIONS},
     type : {Absent, Name("string"), Name("int"), Name("choice"), Name("str"),
             [type |-> "int"], Name("bogus")},
     dest : {Absent, Str(<<"d">>)},
     nargs : {Absent, IntVal(2)},
     const : {Absent, Str(<<"k">>)},
     choices : {Absent, List(<<<<"a">>, <<"b">>>>), Str(<<"a", "b">>)},
     callback : {Absent, [callable |-> "f"], Str(<<"f">>)},
     callback_args : {Absent, Tuple(<<>>), List(<<>>)},
     callback_kwargs : {Absent, [dict |-> <<>>], List(<<>>)}]

\* The keywords of a choice that are given.
Keywords(choice) ==
    [k \in {a \in DOMAIN choice : choice[a] # Absent} |-> choice[k]]

WellFormedOpts == <<<<"-", "a">>, <<"-", "-", "a", "-", "b">>>>

\* The calls of the constructor: every tuple of option strings with no
\* keyword, every choice of keywords with well-formed option strings, and a
\* keyword that is no attribute.
Constructions ==
    {[opts |-> t, attrs |-> <<>>] : t \in OptTuples}
        \cup {[opts |-> WellFormedOpts, attrs |-> Keywords(c)] :
                 c \in KeywordChoices}
        \cup {[opts |-> WellFormedOpts, attrs |-> [colour |-> Str(<<"r">>)]]}

\* Option(*c.opts, **c.attrs): the object is kept when the constructor
\* returns.
NewOption(c) ==
    /\ call = NoCall
    /\ LET r == Option__init__(c.opts, c.attrs)
       IN /\ options' = IF r.raised = NoError THEN Append(options, r.o)
                        ELSE options
          /\ call' = [op |-> "Option", opts |-> c.opts, attrs |-> c.attrs,
                      raised |-> r.raised, msg |-> r.msg, ret |-> r.o,
                      exc |-> NoException]
    /\ UNCHANGED <<option_list, option_groups, conflict_handler, _short_opt,
                   _long_opt, defaults>>
    /\ UNCHANGED flagvars
    /\ UNCHANGED parsevars

\* The calls still to be made: one constructor call is looked at.
Untried == IF call = NoCall THEN Constructions ELSE {}

NextOption == \E c \in Untried : NewOption(c)

InitOption == InitReg /\ conflict_handler = (Parser :> "error")

SpecOption == InitOption /\ [][NextOption]_vars

\* -x: two characters, a dash and then no dash.
ShortForm(s) == Len(s) = 2 /\ s[1] = "-" /\ s[2] # "-"

\* --x...: three characters or more, two dashes and then no dash.
LongForm(s) == Len(s) >= 3 /\ s[1] = "-" /\ s[2] = "-" /\ s[3] # "-"

\* The option strings of the last call that are not empty.
GivenStrings == SelectSeq(call.opts, LAMBDA s : s # <<>>)

\* C21: Option(...) with no string that is not empty fails; with a string
\* that is neither of the short form nor of the long form it fails with
\* OptionError; otherwise no string is refused, and when the constructor
\* returns the strings of the short form are the short options and those of
\* the long form the long options, each in the order given.
C21_OptionStrings ==
    call.op = "Option" =>
        /\ GivenStrings = <<>> => call.raised # NoError
        /\ (\E i \in DOMAIN GivenStrings :
               ~ShortForm(GivenStrings[i]) /\ ~LongForm(GivenStrings[i]))
              => call.raised = "OptionError"
        /\ (/\ GivenStrings # <<>>
            /\ \A i \in DOMAIN GivenStrings :
                  ShortForm(GivenStrings[i]) \/ LongForm(GivenStrings[i]))
              => /\ call.msg \notin {"invalid option string",
                                     "invalid short option string",
                                     "invalid long option string",
                                     "at least one option string must be supplied"}
                 /\ call.raised = NoError =>
                       /\ call.ret._short_opts = SelectSeq(GivenStrings, ShortForm)
                       /\ call.ret._long_opts = SelectSeq(GivenStrings, LongForm)
                       /\ options = <<call.ret>>

\* Option("-ab") has failed with OptionError: three characters that do not
\* start with two dashes.
C21_Witness ==
    /\ call.op = "Option"
    /\ call.opts = <<<<"-", "a", "b">>>>
    /\ call.raised = "OptionError"
    /\ options = <<>>

\* C22: an Option that the constructor returns carries the keywords it was
\* given and is consistent: its action is one of the actions; it has a type
\* (one of the types) and nargs when the action is store or append, and
\* neither when the action is not store, append or callback; a const only
\* for store_const and append_const; choices exactly when its type is
\* choice; a callable callback when the action is callback and no callback
\* field otherwise; a destination for every storing action.  Every other
\* call with well-formed option strings, a keyword that is no attribute
\* included, ends with OptionError.
C22_AttributesChecked ==
    (/\ call.op = "Option"
     /\ GivenStrings # <<>>
     /\ \A i \in DOMAIN GivenStrings :
           ShortForm(GivenStrings[i]) \/ LongForm(GivenStrings[i])) =>
        /\ call.raised \in {NoError, "OptionError"}
        /\ DOMAIN call.attrs \ DOMAIN ATTRS # {} => call.raised = "OptionError"
        /\ call.raised = NoError =>
              LET o == call.ret
                  action == o.action.name
              IN /\ \A k \in DOMAIN call.attrs \ {"type"} : o[k] = call.attrs[k]
                 /\ action \in {"store", "store_const", "store_true",
                                "store_false", "append", "append_const",
                                "count", "callback", "help", "version"}
                 /\ ~IsNone(o.type) =>
                       o.type.name \in {"string", "int", "long", "float",
                                        "complex", "choice"}
                 /\ action \in {"store", "append"} =>
                       ~IsNone(o.type) /\ ~IsNone(o.nargs)
                 /\ action \notin {"store", "append", "callback"} =>
                       IsNone(o.type) /\ IsNone(o.nargs)
                 /\ ~IsNone(o.const) => action \in {"store_const", "append_const"}
                 /\ ~IsNone(o.choices) <=> o.type = Name("choice")
                 /\ IF action = "callback" THEN IsCallable(o.callback)
                    ELSE /\ IsNone(o.callback)
                         /\ IsNone(o.callback_args)
                         /\ IsNone(o.callback_kwargs)
                 /\ action \in {"store", "store_const", "store_true",
                                "store_false", "append", "append_const",
                                "count"} => IsStr(o.dest)

\* Option("-a", "--a-b", action="store_const", const="k") has been
\* constructed: no type, the const kept, the destination a_b.
C22_Witness ==
    /\ call.op = "Option"
    /\ call.raised = NoError
    /\ call.attrs = [action |-> Name("store_const"), const |-> Str(<<"k">>)]
    /\ call.ret.const = Str(<<"k">>)
    /\ IsNone(call.ret.type)
    /\ call.ret.dest = Str(<<"a", "_", "b">>)

----------------------------------------------------------------------------
(* Values.ensure_value on every kind of Values (SpecValues).               *)

kk == <<"k">>
km == <<"m">>
read_file == <<"r", "e", "a", "d", "_", "f", "i", "l", "e">>

ValueKeys == {kk, km, read_file}

\* What an attribute of a Values may hold.
HeldValues ==
    {None, IntVal(0), IntVal(3), Bool(FALSE), List(<<>>), Str(<<>>),
     Str(<<"v">>)}

\* The Values there can be: Values(d) for every dict d over some of the keys.
ValuesObjects ==
    UNION {[ks -> HeldValues] : ks \in SUBSET {kk, read_file}}

EnsureDefaults == {IntVal(0), List(<<>>), Str(<<"D">>)}

\* A Values object, and a parser that plays no part.
InitValues ==
    /\ options = <<>>
    /\ option_list = (Parser :> <<>>)
    /\ option_groups = <<>>
    /\ conflict_handler = (Parser :> "error")
    /\ _short_opt = <<>>
    /\ _long_opt = <<>>
    /\ defaults = <<>>
    /\ allow_interspersed_args = TRUE
    /\ process_default_values = TRUE
    /\ formatter = ParserFormatter
    /\ call = NoCall
    /\ args = <<>>
    /\ sys_argv = <<>>
    /\ rargs = None
    /\ largs = None
    /\ values \in {[values |-> v] : v \in ValuesObjects}
    /\ threads = NoThreads
    /\ aliased = {}
    /\ fired = <<>>
    /\ pc = "idle"
    /\ result = NoResult

\* values.ensure_value(key, default)
EnsureValue(key, default) ==
    /\ call = NoCall
    /\ LET r == ensure_value(values.values, key, default)
       IN /\ values' = [values |-> r.values]
          /\ call' = [op |-> "ensure_value", key |-> key, default |-> default,
                      before |-> values.values, ret |-> r.ret,
                      raised |-> NoError, exc |-> NoException]
    /\ UNCHANGED regvars
    /\ UNCHANGED flagvars
    /\ UNCHANGED <<args, sys_argv, rargs, largs, aliased, fired, pc, result, threads>>

NextValues == \E key \in ValueKeys, default \in EnsureDefaults : EnsureValue(key, default)

SpecValues == InitValues /\ [][NextValues]_vars

\* C23: ensure_value(key, default) on a Values that lacks the key, or holds
\* None for it, installs default and returns it; on a Values that holds
\* anything else for the key (0, False, an empty list or an empty string
\* included) it returns what is held and installs nothing; no other key
\* changes.
C23_EnsureValue ==
    call.op = "ensure_value" =>
        IF call.key \notin DOMAIN call.before \/ IsNone(call.before[call.key])
        THEN /\ call.ret = call.default
             /\ values.values = (call.key :> call.default) @@ call.before
        ELSE /\ call.ret = call.before[call.key]
             /\ values.values = call.before

----------------------------------------------------------------------------
(* Rendering the help of a parser (SpecFormat): options with and without   *)
(* help text are registered with the parser and its groups, and the        *)
(* formatter, built in each of the ways below, renders them.               *)

help_to_default == <<"t", "o", " ">> \o PERCENT_DEFAULT

FormatDecls ==
    { [opts |-> <<sx>>,
       attrs |-> [ATTRS EXCEPT !.action = Name("store_true"),
                               !.help = Str(<<"h">>)]],
      [opts |-> <<sx, sx>>, attrs |-> ATTRS],
      [opts |-> <<sy, labc>>,
       attrs |-> [ATTRS EXCEPT !.dest = Str(<<"a", "b">>),
                               !.default = Str(<<"e">>),
                               !.help = Str(help_to_default)]],
      [opts |-> <<sx, lab>>, attrs |-> [ATTRS EXCEPT !.metavar = Str(<<"N">>)]] }

\* The keyword arguments a formatter is built with (Absent: not given).
FormatterKeywords ==
    { [max_help_position |-> Absent, width |-> Absent, short_first |-> Absent],
      [max_help_position |-> IntVal(3), width |-> Absent, short_first |-> Absent],
      [max_help_position |-> Absent, width |-> IntVal(80), short_first |-> Absent],
      [max_help_position |-> Absent, width |-> Absent, short_first |-> IntVal(1)],
      [max_help_position |-> Absent, width |-> Absent, short_first |-> IntVal(0)],
      [max_help_position |-> Absent, width |-> Absent, short_first |-> IntVal(40)] }

FormatterCalls ==
    {[kind |-> k, kw |-> kw] : k \in {"Indented", "Titled"}, kw \in FormatterKeywords}

Given(v, default) == IF v = Absent THEN default ELSE v

\* IndentedHelpFormatter(**kw) or TitledHelpFormatter(**kw)
BuildFormatter(c) ==
    IF c.kind = "Indented"
    THEN IndentedHelpFormatter(2, Given(c.kw.max_help_position, IntVal(24)).int,
                               Given(c.kw.width, None),
                               Given(c.kw.short_first, IntVal(1))).f
    ELSE TitledHelpFormatter(0, Given(c.kw.max_help_position, IntVal(24)).int,
                             Given(c.kw.width, None),
                             Given(c.kw.short_first, IntVal(0))).f

\* The formatter is the parser's own (OptionParser(formatter=f)), with
\* its default tag or with default_tag = "", or one the caller keeps and
\* hands to the rendering calls.
FormatterUses ==
    { [parser |-> TRUE, default_tag |-> Str(PERCENT_DEFAULT)],
      [parser |-> TRUE, default_tag |-> Str(<<>>)],
      [parser |-> FALSE, default_tag |-> Str(PERCENT_DEFAULT)] }

InitFormat ==
    /\ options = <<>>
    /\ option_list = (Parser :> <<>>)
    /\ option_groups = <<>>
    /\ conflict_handler \in {(Parser :> "error"), (Parser :> "resolve")}
    /\ _short_opt = <<>>
    /\ _long_opt = <<>>
    /\ defaults = <<>>
    /\ allow_interspersed_args = TRUE
    /\ process_default_values = TRUE
    /\ \E c \in FormatterCalls, u \in FormatterUses :
          formatter = [BuildFormatter(c) EXCEPT !.parser = u.parser,
                                                !.default_tag = u.default_tag]
    /\ call = NoCall
    /\ sys_argv = <<>>
    /\ ParseIdle

\* The nesting level up to which renderings are followed.
MaxLevel == 3

Rendering(op, r) ==
    /\ formatter' = r.f
    /\ call' = [op |-> op, raised |-> r.raised,
                ret |-> IF r.raised = NoError THEN r.items ELSE <<>>,
                exc |-> NoException, before |-> formatter]
    /\ UNCHANGED regvars
    /\ UNCHANGED <<allow_interspersed_args, process_default_values>>
    /\ UNCHANGED parsevars

\* formatter.store_option_strings(parser)
StoreOptionStrings ==
    /\ formatter.level < MaxLevel
    /\ Rendering("store_option_strings",
                 Rendered(store_option_strings(formatter, Registry), <<>>))

\* parser.format_option_help(formatter)
FormatOptionHelp ==
    /\ formatter.level < MaxLevel
    /\ Rendering("format_option_help", format_option_help(formatter, Registry))

\* parser.format_help(formatter)
FormatHelp ==
    /\ formatter.level < MaxLevel
    /\ Rendering("format_help", format_help(formatter, Registry))

NextFormat ==
    \/ \E self \in Containers, d \in FormatDecls : AddOption(self, d)
    \/ AddOptionGroup
    \/ StoreOptionStrings
    \/ FormatOptionHelp
    \/ FormatHelp

SpecFormat == InitFormat /\ [][NextFormat]_vars

\* The options of the parser and of its groups, each with the indent at
\* which its label is rendered.
StoredOptions(reg) ==
    {[option |-> reg.option_list[Parser][i], depth |-> 1] :
         i \in 1..Len(reg.option_list[Parser])}
    \cup UNION {{[option |-> reg.option_list[reg.option_groups[g]][i], depth |-> 2] :
                    i \in 1..Len(reg.option_list[reg.option_groups[g]])} :
                g \in 1..Len(reg.option_groups)}

\* The largest of (label length + the indent the label is rendered at)
\* over the stored options, for a formatter at rest.
WidestLabel(f, reg) ==
    LET widths == {Len(format_option_strings(f, reg.options[s.option]))
                       + f.current_indent + s.depth * f.indent_increment :
                   s \in StoredOptions(reg)} \cup {0}
    IN CHOOSE m \in widths : \A w \in widths : w <= m

\* The constructor calls that give a formatter configured as f is.
BuiltAs(f) ==
    {c \in FormatterCalls :
        LET b == BuildFormatter(c)
        IN /\ b.kind = f.kind
           /\ b.indent_increment = f.indent_increment
           /\ b.max_help_position = f.max_help_position
           /\ b.short_first = f.short_first}

\* The max_help_position a constructor call configures.
Ceiling(c) == Given(c.kw.max_help_position, IntVal(24)).int

\* C24: after store_option_strings, help_position = min(W + 2, ceiling),
\* W the largest (label length + indent of the label) over the direct and
\* group-owned options and ceiling the max_help_position the formatter was
\* built with (24 when none was given), and help_width =
\* max(width - help_position, 11).
C24_HelpColumn ==
    call.op = "store_option_strings" =>
        \A c \in BuiltAs(call.before) :
            /\ formatter.help_position =
                   Min(WidestLabel(call.before, Registry) + 2, Ceiling(c))
            /\ formatter.help_width =
                   IntVal(Max(formatter.width - formatter.help_position, 11))

\* s.replace(old, new), old not empty
RECURSIVE Replace(_, _, _)
Replace(s, old, new) ==
    IF Len(s) < Len(old) THEN s
    ELSE IF SubSeq(s, 1, Len(old)) = old
         THEN new \o Replace(SubSeq(s, Len(old) + 1, Len(s)), old, new)
         ELSE <<s[1]>> \o Replace(Tail(s), old, new)

NO_DEFAULT_VALUE == <<"n", "o", "n", "e">>

\* The text that stands for the default of the destination of o: the
\* default itself (the defaults of the options here are strings), or
\* "none" when there is none.
DefaultText(reg, o) ==
    IF IsNone(o.dest) \/ o.dest.str \notin DOMAIN reg.defaults
    THEN NO_DEFAULT_VALUE
    ELSE IF IsStr(reg.defaults[o.dest.str]) THEN reg.defaults[o.dest.str].str
    ELSE NO_DEFAULT_VALUE

\* The help text of o with every default tag replaced.
ExpandedHelp(f, reg, o) ==
    IF ~f.parser \/ ~Truthy(f.default_tag) THEN o.help.str
    ELSE Replace(o.help.str, f.default_tag.str, DefaultText(reg, o))

RenderingCalls == {"format_option_help", "format_help"}

\* C25: rendering completes, and the help text of every option rendered
\* has each %default replaced by the default of the option's destination
\* in the defaults table, or by "none" when there is no default; with an
\* empty default tag, or a formatter without parser, the text is unchanged.
C25_DefaultExpanded ==
    (call.op \in RenderingCalls /\ call.before.level = 0) =>
        /\ call.raised = NoError
        /\ \A i \in 1..Len(call.ret) :
              ("option" \in DOMAIN call.ret[i]
                  /\ Truthy(options[call.ret[i].option].help)) =>
                 call.ret[i].help =
                     Str(ExpandedHelp(call.before, Registry,
                                      options[call.ret[i].option]))

\* The short_first a constructor call configures: the keyword, or the
\* default of the style (1 for IndentedHelpFormatter, 0 for Titled).
ConfiguredShortFirst(c) ==
    Given(c.kw.short_first, IF c.kind = "Indented" THEN IntVal(1) ELSE IntVal(0))

\* C26: the label of an option lists the short strings before the long
\* ones when the formatter is configured short-first (the default of
\* IndentedHelpFormatter) and the long ones first when it is configured
\* long-first (the default of TitledHelpFormatter), joined by ", "; each
\* string of a value-taking option is followed by the delimiter and the
\* metavar, the strings of other options are bare.
C26_LabelOrder ==
    call.op = "store_option_strings" =>
        \A c \in BuiltAs(call.before), s \in StoredOptions(Registry) :
            formatter.option_strings[s.option] =
                format_option_strings(
                    [call.before EXCEPT !.short_first = ConfiguredShortFirst(c)],
                    options[s.option])

\* The part of s before the first ch (all of s when there is none).
RECURSIVE UpTo(_, _)
UpTo(s, ch) ==
    IF s = <<>> \/ s[1] = ch THEN <<>> ELSE <<s[1]>> \o UpTo(Tail(s), ch)

\* label.split(", ")
RECURSIVE SplitLabel(_)
SplitLabel(label) ==
    LET head == UpTo(label, ",")
    IN IF Len(head) = Len(label) THEN <<label>>
       ELSE <<head>> \o SplitLabel(SubSeq(label, Len(head) + 3, Len(label)))

\* The option strings a label contains: each piece of the label without
\* the delimiter and the metavar that follow the string.
LabelStrings(label) ==
    IF label = <<>> THEN {}
    ELSE {UpTo(UpTo(piece, "="), " ") :
             piece \in {SplitLabel(label)[i] : i \in 1..Len(SplitLabel(label))}}

\* C27: for every option stored in the parser or in a group, each option
\* string in the label the formatter renders for it resolves through the
\* lookup tables (get_option) to that same Option.
C27_LabelRoundTrip ==
    \A s \in StoredOptions(Registry) :
        \A opt_str \in LabelStrings(format_option_strings(formatter,
                                                          options[s.option])) :
            /\ has_option(Registry, opt_str)
            /\ get_option(Registry, opt_str) = s.option

HelpCalls == RenderingCalls \cup {"store_option_strings"}

\* C28: store_option_strings, format_option_help and format_help leave
\* the option lists, the lookup tables, the defaults table and every
\* Option as they were, and change nothing of the formatter but its layout
\* cache (option_strings, help_position, help_width).
C28_RenderingReadOnly ==
    [][call'.op \in HelpCalls =>
          /\ UNCHANGED regvars
          /\ formatter' = [formatter EXCEPT
                              !.option_strings = formatter'.option_strings,
                              !.help_position = formatter'.help_position,
                              !.help_width = formatter'.help_width]]_vars

\* The part of C28 about the parser alone.
ParserUnchangedByRendering ==
    [][call'.op \in HelpCalls => UNCHANGED regvars]_vars

----------------------------------------------------------------------------
(* check_builtin on the texts of numbers, for each numeric type            *)
(* (SpecConvert).                                                          *)

NumberTexts ==
    { <<"0">>,
      <<"1">>,
      <<"7">>,
      <<"8">>,
      <<"1", "0">>,
      <<"1", "2">>,
      <<"0", "1", "0">>,
      <<"0", "1", "7">>,
      <<"0", "8">>,
      <<"0", "0">>,
      <<"0", "x">>,
      <<"0", "x", "1", "0">>,
      <<"0", "X", "1", "f">>,
      <<"0", "x", "g">>,
      <<"0", "b">>,
      <<"0", "b", "1">>,
      <<"0", "B", "1", "0", "1">>,
      <<"0", "b", "2">>,
      <<"0", "o", "1", "7">>,
      <<"a", "b", "c">>,
      <<>>,
      <<"1", ".", "5">>,
      <<".", "5">>,
      <<"1", ".">>,
      <<"0", ".", "5", "0">>,
      <<".">>,
      <<"-", "5">>,
      <<"+", "3">>,
      <<"-", "0", "1", "0">>,
      <<"-", "0", "x", "1", "0">>,
      <<"1", "j">>,
      <<"j">>,
      <<"2", ".", "5", "J">>,
      <<"0", "x", "1", "j">>,
      <<"1", ".", "2", ".", "3">> }

NumericTypes == {"int", "long", "float", "complex"}

\* option.check_value(opt, value) of the option --num declared with the
\* type, as convert_value calls it for a value on the command line.
CheckBuiltin(type, value) ==
    /\ LET o == Option(<<lnum>>, [ATTRS EXCEPT !.type = Name(type)])
           r == check_value(o, lnum, value)
       IN call' = [op |-> "check_builtin", raised |-> NoError, ret |-> r.ret,
                   exc |-> r.exc, type |-> type, value |-> value]
    /\ UNCHANGED regvars
    /\ UNCHANGED flagvars
    /\ UNCHANGED parsevars

NextConvert == \E type \in NumericTypes, value \in NumberTexts : CheckBuiltin(type, value)

SpecConvert == InitOption /\ [][NextConvert]_vars

\* The radix the first characters of val stand for, and the digits read
\* in it: "0x" 16, "0b" 2 (the prefix taken off, "0" when nothing follows),
\* a leading "0" 8, anything else 10.
ByPrefix(val) ==
    IF Lower(Take(val, 2)) = <<"0", "x">> THEN int(val, 16)
    ELSE IF Lower(Take(val, 2)) = <<"0", "b">>
         THEN int(IF Len(val) > 2 THEN Drop(val, 2) ELSE <<"0">>, 2)
    ELSE IF Take(val, 1) = <<"0">> THEN int(val, 8)
    ELSE int(val, 10)

HasRadixPrefix(val) == Take(val, 1) = <<"0">> /\ Len(val) > 1

\* The whole number n as a value of the type.
AsType(type, n) ==
    IF type \in {"int", "long"} THEN IntVal(n)
    ELSE IF type = "float" THEN [float |-> [num |-> n, places |-> 0]]
    ELSE [complex |-> [real |-> [num |-> n, places |-> 0],
                       imag |-> [num |-> 0, places |-> 0]]]

\* What the type's converter is said to read.
ExpectedKind(type) ==
    IF type \in {"int", "long"} THEN "integer"
    ELSE IF type = "float" THEN "floating-point" ELSE "complex"

\* The call ended as the conversion c does: with its number, or with the
\* invalid-value OptionValueError that names the kind.
EndsAs(c) ==
    IF c.raised = NoError
    THEN call.ret = c.ret /\ call.exc = NoException
    ELSE /\ call.exc.kind = "OptionValueError"
         /\ call.exc.what = ExpectedKind(call.type)
         /\ call.exc.possibilities = <<call.value>>

\* C29, as worded: for each of the four types, a value with a radix
\* prefix is read in the radix of the prefix ("0x" 16, "0b" 2, leading
\* "0" 8).
C29_PrefixForEveryType ==
    (call.op = "check_builtin" /\ HasRadixPrefix(call.value)
        /\ ByPrefix(call.value).raised = NoError) =>
        call.ret = AsType(call.type, ByPrefix(call.value).ret.int)

\* C29: for the types int and long a value is read in base 16 after "0x",
\* in base 2 after "0b" (a bare "0b" is 0), in base 8 after a leading "0"
\* ("010" is 8, "0" is 0) and in base 10 otherwise; for the types float
\* and complex it is read by float() and complex(), which know no radix
\* prefix ("010" is 10.0, "0x10" does not convert); a value that does not
\* convert fails with the invalid-value OptionValueError naming the kind
\* (integer, floating-point, complex).
C29_NumericConversion ==
    call.op = "check_builtin" =>
        /\ call.type \in {"int", "long"} =>
              /\ EndsAs(ByPrefix(call.value))
              /\ call.value = <<"0", "1", "0">> => call.ret = IntVal(8)
              /\ call.value \in {<<"0">>, <<"0", "b">>} => call.ret = IntVal(0)
              /\ call.value = <<"0", "X", "1", "f">> => call.ret = IntVal(31)
              /\ call.value \in {<<"0", "8">>, <<"a", "b", "c">>} =>
                    call.exc.kind = "OptionValueError"
        /\ call.type = "float" =>
              /\ EndsAs(float(call.value))
              /\ call.value = <<"0", "1", "0">> => call.ret = AsType("float", 10)
              /\ call.value = <<"0", "x", "1", "0">> =>
                    call.exc.kind = "OptionValueError"
        /\ call.type = "complex" =>
              /\ EndsAs(complex(call.value))
              /\ call.value = <<"0", "1", "0">> => call.ret = AsType("complex", 10)

C29_Witness ==
    /\ call.op = "check_builtin"
    /\ call.type = "float"
    /\ call.value = <<"0", "x", "1", "0">>
    /\ call.exc.kind = "OptionValueError"
    /\ call.exc.what = "floating-point"

----------------------------------------------------------------------------
(* Two calls of parse_args that run side by side (SpecThreads), on one     *)
(* parser or on two parsers built alike.  Each call has its locals; the    *)
(* attributes rargs, largs and values of a parser refer to the lists of    *)
(* the call that entered it last.  A pass of the loop is one step.         *)

tw == <<"-", "w">>

\* -v/--verbose, -o/--output, and -w with the callback that reads the
\* arguments of the option off parser.rargs.
ThreadDecls ==
    << [opts |-> <<tv, lverbose>>,
        attrs |-> [ATTRS EXCEPT !.action = Name("store_true")]],
       [opts |-> <<to, loutput>>, attrs |-> ATTRS],
       [opts |-> <<tw>>,
        attrs |-> [ATTRS EXCEPT !.action = Name("callback"),
                                !.callback = [callable |-> "vararg_callback"],
                                !.dest = Str(<<"w">>)]] >>

ThreadVectors ==
    { <<tv>>, <<tx>>, <<tw>>, <<tw, tx>>, <<to, tx>>, <<tx, tv>>,
      <<tw, tx, ty>>, <<to, ty, tx>>, <<tv, tw, ty>> }

ThreadIds == {1, 2}

\* The locals of a call that has not been made yet.
IdleLocal ==
    [args |-> <<>>, rargs |-> <<>>, largs |-> <<>>, values |-> <<>>,
     defaults |-> <<>>, aliased |-> {}, fired |-> <<>>, pc |-> "idle",
     result |-> NoResult]

InitThreads ==
    LET reg == add_options(EmptyRegistry, ThreadDecls)
    IN /\ options = reg.options
       /\ option_list = reg.option_list
       /\ option_groups = reg.option_groups
       /\ conflict_handler = reg.conflict_handler
       /\ _short_opt = reg._short_opt
       /\ _long_opt = reg._long_opt
       /\ defaults = reg.defaults
       /\ allow_interspersed_args = TRUE
       /\ process_default_values = TRUE
       /\ formatter = ParserFormatter
       /\ call = NoCall
       /\ sys_argv = <<>>
       /\ args = <<>>
       /\ rargs = None
       /\ largs = None
       /\ values = None
       /\ aliased = {}
       /\ fired = <<>>
       /\ pc = "idle"
       /\ result = NoResult
       /\ threads \in {[owner |-> 0, same |-> b,
                        local |-> <<[IdleLocal EXCEPT !.defaults = reg.defaults],
                                    [IdleLocal EXCEPT !.defaults = reg.defaults]>>] :
                       b \in BOOLEAN}

\* A faulty instance_attrs, with one set of attributes for all parsers.
instance_attrs_shared(ths, c) == IF ths.owner = 0 THEN c ELSE ths.owner

\* The call whose lists the attributes of the parser of call c refer to:
\* the call that entered the parser last (1048-1050).  Call 2 runs on the
\* parser of call 1 or, when the parsers are two, alone on its own.
instance_attrs(ths, c) == IF ths.same THEN ths.owner ELSE c

\* The parser call c runs on.
ParserOf(c) == [Registry EXCEPT !.defaults = threads.local[c].defaults]

\* The call c without what it sees of another call.
Locals(st) == [f \in DOMAIN st \ {"parser"} |-> st[f]]

\* The variables of the parser of call 1 after a step that leaves the
\* calls as ths: its attributes are the lists of the call ths.owner.
SetThreads(ths) ==
    /\ threads' = ths
    /\ IF ths.owner = 0 THEN UNCHANGED <<rargs, largs, values>>
       ELSE /\ rargs' = List(ths.local[ths.owner].rargs)
            /\ largs' = List(ths.local[ths.owner].largs)
            /\ values' = [values |-> ths.local[ths.owner].values]
    /\ defaults' = ths.local[1].defaults
    /\ UNCHANGED <<options, option_list, option_groups, conflict_handler,
                   _short_opt, _long_opt, call, args, sys_argv, aliased, fired,
                   pc, result>>
    /\ UNCHANGED flagvars

\* Call c enters parse_args(a): its locals are made, and the attributes
\* of its parser are set to them.
ThreadEnter(c, a) ==
    /\ threads.local[c].pc = "idle"
    /\ LET st == parse_args_enter(ParserOf(c), process_default_values, a,
                                  sys_argv)
       IN SetThreads([threads EXCEPT
              !.local[c] = ("args" :> a) @@ st,
              !.owner = IF threads.same \/ c = 1 THEN c ELSE @])

\* One pass of the loop of _process_args in call c.  A callback works on
\* the lists the attributes of the parser refer to, which are those of
\* the other call when that call entered last; the Values a call has
\* returned is the object its local values names.
ThreadPass(c) ==
    /\ threads.local[c].pc = "running"
    /\ LET seen == instance_attrs(threads, c)
           st == threads.local[c]
           out == _process_args(ParserOf(c), allow_interspersed_args,
                      IF seen = c THEN st
                      ELSE ("parser" :> [rargs |-> threads.local[seen].rargs,
                                         values |-> threads.local[seen].values])
                               @@ st)
       IN SetThreads([threads EXCEPT !.local =
              [d \in ThreadIds |->
                  IF d = c THEN Locals(out)
                  ELSE IF d = seen
                       THEN [threads.local[d] EXCEPT
                                !.rargs = out.parser.rargs,
                                !.values = out.parser.values,
                                !.result.values =
                                    IF threads.local[d].pc = "returned"
                                    THEN out.parser.values ELSE @]
                  ELSE IF threads.same
                       THEN [threads.local[d] EXCEPT !.defaults = out.defaults]
                  ELSE threads.local[d]]])

\* args = largs + rargs; return self.check_values(values, args)
ThreadReturn(c) ==
    /\ threads.local[c].pc = "finishing"
    /\ SetThreads([threads EXCEPT !.local[c] = parse_args_return(@)])

NextThreads ==
    \/ \E c \in ThreadIds, a \in ThreadVectors : ThreadEnter(c, a)
    \/ \E c \in ThreadIds : ThreadPass(c)
    \/ \E c \in ThreadIds : ThreadReturn(c)

SpecThreads == InitThreads /\ [][NextThreads]_vars

\* How the call c ends when no other call runs: parse_args on its vector.
Alone(c) ==
    parse_args(Registry, allow_interspersed_args, process_default_values,
               threads.local[c].args, sys_argv)

ThreadEnded(c) == threads.local[c].pc \in {"returned", "exited", "raised"}

\* C30: two calls of parse_args on independent parsers never interfere:
\* however their steps interleave, each ends as it ends when run alone.
\* (That two calls on one parser do interfere through the attributes
\* rargs, largs and values is the state C30_Witness describes.)
C30_IndependentParsers ==
    \A c \in ThreadIds :
        (~threads.same /\ ThreadEnded(c)) => threads.local[c].result = Alone(c)

\* Two calls on one parser: the callback of -w in call 1 ran when call 2
\* had entered, took the token x off the remaining tokens of call 2 and
\* wrote it into the values of call 2; both calls return another result
\* than they return alone.
C30_Witness ==
    /\ threads.same
    /\ threads.local[1].args = <<tw, tx>>
    /\ threads.local[2].args = <<tx, tv>>
    /\ threads.local[1].pc = "returned"
    /\ threads.local[2].pc = "returned"
    /\ threads.local[1].result.args = <<tx>>
    /\ threads.local[2].result.args = <<>>
    /\ threads.local[2].result.values["w"] = List(<<tx>>)
    /\ threads.local[1].result # Alone(1)
    /\ threads.local[2].result # Alone(2)

\* On one parser, calls of which none reaches a callback end as they end
\* alone: the loop works on the lists of its own call.
NoCallbackNoInterference ==
    \A c \in ThreadIds :
        (/\ threads.same
         /\ ThreadEnded(c)
         /\ \A d \in ThreadIds :
               \A i \in 1..Len(threads.local[d].args) :
                   threads.local[d].args[i] # tw)
            => threads.local[c].result = Alone(c)

----------------------------------------------------------------------------
(* "--" among the values of an option (SpecParse).                         *)

\* The tokens the value-taking option of the pass about to run takes.
TakenAsValues ==
    Take(ValueOption.avail, options[ValueOption.option].nargs.int)

\* What the option stores for the tokens it takes.
StoredFor(taken) ==
    IF Len(taken) = 1 THEN Str(taken[1])
    ELSE Tuple([k \in DOMAIN taken |-> Str(taken[k])])

\* C31: "--" is the separator only where a pass of the loop meets it at the
\* head of the remaining tokens.  A pass whose value-taking option takes a
\* "--" among its nargs value tokens (the next tokens, or the text attached
\* to the option) stores it as the option's value and leaves the loop
\* running on the tokens after the values, so that the options after it
\* still fire; and with interspersed arguments allowed no pass but one that
\* has "--" at the head ends the loop while tokens remain.  -o -- -v,
\* --output=-- -v and -o-- -v give output "--" and verbose True with nothing
\* left over; --na x -- -v gives name (x, "--") and verbose True.
C31_SeparatorAsValue ==
    [][/\ ((LongOpt \/ ShortOpts) /\ ValueOption.found
              /\ Len(ValueOption.avail) >= options[ValueOption.option].nargs.int
              /\ Contains(TakenAsValues, DashDash)) =>
              /\ pc' = "running"
              /\ rargs'.list = Drop(ValueOption.avail, Len(TakenAsValues))
              /\ fired'[Len(fired')].option = ValueOption.option
              /\ fired'[Len(fired')].value = StoredFor(TakenAsValues)
              /\ values'.values[options[ValueOption.option].dest.str] =
                     StoredFor(TakenAsValues)
              /\ largs' = largs
       /\ (Scanning /\ allow_interspersed_args /\ pc' = "finishing") =>
              IsSeparator(rargs.list[1])
       /\ (pc' = "returned"
              /\ args' \in { <<to, DashDash, tv>>, <<WithValue(loutput, DashDash), tv>>,
                             <<to \o DashDash, tv>> }) =>
              /\ result'.values[Drop(loutput, 2)] = Str(DashDash)
              /\ result'.values[Drop(lverbose, 2)] = Bool(TRUE)
              /\ result'.args = <<>>
       /\ (pc' = "returned" /\ args' = <<lna, tx, DashDash, tv>>) =>
              /\ result'.values[Drop(lname, 2)] = Tuple(<<Str(tx), Str(DashDash)>>)
              /\ result'.values[Drop(lverbose, 2)] = Bool(TRUE)
              /\ result'.args = <<>>]_vars

\* -o has taken the "--" after it as its value and -v, the token after the
\* "--", has fired: the call has returned with nothing left over.
C31_Witness ==
    /\ pc = "returned"
    /\ args = <<to, DashDash, tv>>
    /\ Len(fired) = 2
    /\ fired[1].value = Str(DashDash)
    /\ result.values[Drop(loutput, 2)] = Str(DashDash)
    /\ result.values[Drop(lverbose, 2)] = Bool(TRUE)

----------------------------------------------------------------------------
(* The parser's rargs, largs and values attributes (SpecParse).            *)

\* A call of parse_args is in progress.
ParseActive == pc \in {"running", "finishing"}

\* C32: the parser's rargs, largs and values are set only while parse_args
\* is active: they are None after construction and whenever no call of
\* parse_args is in progress, also after every call has returned.
C32_AttributesOnlyWhileActive ==
    ~ParseActive => (rargs = None /\ largs = None /\ values = None)

\* Supporting: the attributes are None until the first call, and from then
\* on they name the lists and the Values of the latest call that got as far
\* as the loop, whose result is made of them when it returns.
AttributesOfLatestCall ==
    /\ pc = "idle" => (rargs = None /\ largs = None /\ values = None)
    /\ pc = "returned" =>
          /\ result.args = largs.list \o rargs.list
          /\ result.values = values.values

----------------------------------------------------------------------------
(* parse_args called with an empty vector (SpecParse).                     *)

\* C33: parse_args called with an explicitly supplied empty token vector
\* processes no tokens, whatever sys.argv holds: no action fires, and the
\* call returns the Values seeded from the defaults with an empty leftover
\* list.  (parse_args tests "if args" and "args or sys.argv[1:]", so the
\* call with [] runs as the call with None does: args = <<>> is both.)
C33_EmptyVectorParsesNothing ==
    (args = <<>> /\ pc # "idle") =>
        /\ fired = <<>>
        /\ pc \in {"running", "finishing", "returned"}
        /\ pc = "returned" =>
              /\ result.args = <<>>
              /\ result.values =
                     get_default_values(Registry, process_default_values).values

\* Supporting: the call with the empty vector parses sys.argv[1:], as the
\* call with that vector does.
EmptyVectorParsesSysArgv ==
    (args = <<>> /\ pc = "returned") =>
        result = parse_args(Registry, allow_interspersed_args,
                            process_default_values, sys_argv, <<>>)

----------------------------------------------------------------------------
(* The lookup tables and the option lists (SpecReg).                       *)

\* Every key of the table maps to an option that lists the key among the
\* strings named by field and that is in the list of its container.
TableAgrees(table, field) ==
    \A i \in DOMAIN table :
        LET o == options[table[i].v]
        IN /\ Contains(o[field], table[i].k)
           /\ o.container \in DOMAIN option_list
           /\ Contains(option_list[o.container], table[i].v)

\* Every string the listed option id has under field is a key of the table,
\* mapped to id.
ListedIn(table, field, id) ==
    \A k \in DOMAIN options[id][field] :
        /\ DictHas(table, options[id][field][k])
        /\ DictGet(table, options[id][field][k]) = id

\* C34: after any sequence of add_option calls (on the parser or a group,
\* under either conflict policy, an already registered Option instance
\* included) and remove_option calls, the tables and the lists agree: every
\* key s of the short or the long table maps to an option that has s among
\* its own strings and is in the list of its container, and every option in
\* a list has at least one string, each of its strings being a key of the
\* table mapped to it.
C34_TablesAgreeWithLists ==
    /\ TableAgrees(_short_opt, "_short_opts")
    /\ TableAgrees(_long_opt, "_long_opts")
    /\ \A c \in DOMAIN option_list : \A i \in DOMAIN option_list[c] :
          /\ OptStrings(options[option_list[c][i]]) # <<>>
          /\ ListedIn(_short_opt, "_short_opts", option_list[c][i])
          /\ ListedIn(_long_opt, "_long_opts", option_list[c][i])

----------------------------------------------------------------------------
(* Several options writing one destination (SpecOrder).                    *)

tq == <<"-", "q">>
tf == <<"-", "f">>
tk == <<"-", "k">>
tvq == <<"-", "v", "q">>
tqv == <<"-", "q", "v">>
tkfy == <<"-", "k", "f", "y">>
tqo == <<"-", "q", "o">>
lquiet == <<"-", "-", "q", "u", "i", "e", "t">>

\* parser.add_option("-v", "--verbose", action="store_true"),
\* parser.add_option("-q", "--quiet", action="store_false", dest="verbose"),
\* parser.add_option("-o", "--output"), parser.add_option("-f", dest="output"),
\* parser.add_option("-k", action="store_const", const="k", dest="output")
OrderDecls ==
    << [opts |-> <<tv, lverbose>>,
        attrs |-> [ATTRS EXCEPT !.action = Name("store_true")]],
       [opts |-> <<tq, lquiet>>,
        attrs |-> [ATTRS EXCEPT !.action = Name("store_false"),
                                !.dest = Str(Drop(lverbose, 2))]],
       [opts |-> <<to, loutput>>, attrs |-> ATTRS],
       [opts |-> <<tf>>, attrs |-> [ATTRS EXCEPT !.dest = Str(Drop(loutput, 2))]],
       [opts |-> <<tk>>,
        attrs |-> [ATTRS EXCEPT !.action = Name("store_const"),
                                !.const = Str(<<"k">>),
                                !.dest = Str(Drop(loutput, 2))]] >>

\* The tokens of the vectors: flags alone and in clusters, options with
\* their value in the next token or attached, long forms, positionals.
OrderTokens ==
    { tv, tq, tvq, tqv, tk, to, tf, tkfy, tqo, lquiet,
      WithValue(loutput, tx), tx, ty }

RECURSIVE OrderVectorsOfLen(_)
OrderVectorsOfLen(n) ==
    IF n = 0 THEN {<<>>}
    ELSE {Append(v, t) : v \in OrderVectorsOfLen(n - 1), t \in OrderTokens}

OrderVectors == UNION {OrderVectorsOfLen(n) : n \in 0..MaxArgs}

InitOrder ==
    LET reg == add_options(EmptyRegistry, OrderDecls)
    IN /\ options = reg.options
       /\ option_list = reg.option_list
       /\ option_groups = reg.option_groups
       /\ conflict_handler = reg.conflict_handler
       /\ _short_opt = reg._short_opt
       /\ _long_opt = reg._long_opt
       /\ defaults = reg.defaults
       /\ allow_interspersed_args = TRUE
       /\ process_default_values = TRUE
       /\ formatter = ParserFormatter
       /\ call = NoCall
       /\ sys_argv = <<>>
       /\ ParseIdle

NextOrder ==
    \/ \E a \in OrderVectors : ParseArgs(a)
    \/ LoopEnd
    \/ LongOpt
    \/ ShortOpts
    \/ Positional
    \/ ParseReturn

SpecOrder == InitOrder /\ [][NextOrder]_vars

\* What a store-type option writes at its destination when it fires with
\* the (converted) value of the log entry f.
Written(f) ==
    LET o == options[f.option]
    IN CASE o.action = Name("store") -> f.value
         [] o.action = Name("store_const") -> o.const
         [] o.action = Name("store_true") -> Bool(TRUE)
         [] o.action = Name("store_false") -> Bool(FALSE)

\* The firings so far that wrote the destination d, as places of the log.
WritersOf(d) == {i \in DOMAIN fired : options[fired[i].option].dest = Str(d)}

\* The option strings a token of flags stands for, left to right: each
\* character of a cluster, or the long string itself.
FlagsOf(tok) ==
    IF IsLongOpt(tok) THEN <<tok>>
    ELSE IF IsShortOpts(tok) THEN [i \in 1..(Len(tok) - 1) |-> <<"-", tok[i + 1]>>]
    ELSE <<>>

\* The occurrences of a vector of flags and positionals, in token order.
RECURSIVE Occurrences(_)
Occurrences(a) ==
    IF a = <<>> THEN <<>> ELSE FlagsOf(a[1]) \o Occurrences(Tail(a))

\* The tokens that are positional or made of flags only.
OrderFlagTokens == {tv, tq, tvq, tqv, tk, lquiet, tx, ty}

\* C35: option actions take effect in token-stream order, one action per
\* matched occurrence.  A pass of the loop only adds to the end of the log
\* of the actions taken; at every point of a parse each destination holds
\* what the last firing that wrote it wrote (its seeded value when none
\* did); and when parse_args returns for a vector of flags (alone, in
\* clusters, long) and positionals, the actions taken are the occurrences
\* of the vector, left to right across the tokens and across the characters
\* of each cluster, so that the destination ends as the last occurrence in
\* the vector leaves it.
C35_ActionsInTokenOrder ==
    [][/\ (pc = "running" /\ pc' # "idle") =>
              /\ Len(fired') >= Len(fired)
              /\ SubSeq(fired', 1, Len(fired)) = fired
       /\ (pc' \in {"running", "finishing", "returned"}) =>
              \A d \in DOMAIN values'.values :
                 LET W == {i \in DOMAIN fired' :
                              options[fired'[i].option].dest = Str(d)}
                 IN values'.values[d] =
                        IF W = {} THEN defaults[d]
                        ELSE Written(fired'[CHOOSE i \in W : \A j \in W : j <= i])
       /\ (pc' = "returned"
              /\ \A i \in DOMAIN args' : args'[i] \in OrderFlagTokens) =>
              /\ [i \in DOMAIN fired' |-> fired'[i].opt] = Occurrences(args')
              /\ result'.values = values'.values]_vars

\* -v -qv -q has returned: four actions, verbose False as the last, -q,
\* left it.
C35_Witness ==
    /\ pc = "returned"
    /\ args = <<tv, tqv, tq>>
    /\ [i \in DOMAIN fired |-> fired[i].opt] = <<tv, tq, tv, tq>>
    /\ result.values[Drop(lverbose, 2)] = Bool(FALSE)

\* Supporting: -o x -kfy has returned, output having gone x, k, y.
StoreOrderReached ==
    /\ pc = "returned"
    /\ args = <<to, tx, tkfy>>
    /\ [i \in DOMAIN fired |-> fired[i].opt] = <<to, tk, tf>>
    /\ result.values[Drop(loutput, 2)] = Str(ty)

----------------------------------------------------------------------------
(* The loop of _process_args runs to its end (SpecLoop).                   *)

\* A pass of the loop over the token at the head of the remaining tokens.
TokenPass ==
    \/ Separator
    \/ LongOpt
    \/ ShortOpts
    \/ Positional
    \/ StopEarly

NextLoop ==
    \/ EnableInterspersedArgs
    \/ DisableInterspersedArgs
    \/ \E a \in ActionVectors : ParseArgs(a)
    \/ LoopEnd
    \/ TokenPass
    \/ ParseReturn

\* Some branch of the loop takes the token at the head, whatever it is.
PassAlwaysPossible ==
    Scanning =>
        \/ IsSeparator(rargs.list[1])
        \/ IsLongOpt(rargs.list[1])
        \/ IsShortOpts(rargs.list[1])
        \/ IsPositional(rargs.list[1])

\* The parser of SpecActions (no callbacks, nargs 1 or 2 for the options
\* that take a value), with interspersed arguments allowed or not.  The
\* code is sequential, so a call that is under way takes its next step:
\* weak fairness of the loop test that fails, of the return, and of the
\* pass over a token, the last written out with Scanning for
\* ENABLED <<TokenPass>>_vars (PassAlwaysPossible).
SpecLoop ==
    /\ InitActions
    /\ [][NextLoop]_vars
    /\ WF_vars(LoopEnd)
    /\ WF_vars(ParseReturn)
    /\ ([]<>(~Scanning) \/ []<><<TokenPass>>_vars)

\* The call has ended: it returned, or it was left through sys.exit or an
\* exception.
CallEnded == pc \in {"returned", "exited", "raised"}

\* The loop is left where the code returns from it.
LoopLeftByReturn ==
    /\ pc' = "finishing"
    /\ \/ rargs.list = <<>> /\ UNCHANGED <<rargs, largs>>
       \/ /\ rargs.list # <<>> /\ IsSeparator(rargs.list[1])
          /\ rargs'.list = Tail(rargs.list)
       \/ /\ rargs.list # <<>> /\ NonOption(rargs.list[1])
          /\ ~allow_interspersed_args
          /\ UNCHANGED <<rargs, largs>>

\* C36 as it is worded: a pass of the loop leaves the remaining tokens
\* strictly shorter or ends the loop, and the loop ends with nothing
\* remaining, at a "--", at the first non-option token when interspersed
\* arguments are not allowed, or in an error exit (parser.error, status 2).
C36_EndsAsListed ==
    [][pc = "running" =>
          \/ pc' = "running" /\ Len(rargs'.list) < Len(rargs.list)
          \/ LoopLeftByReturn
          \/ pc' = "exited" /\ result'.kind = "exit" /\ result'.status = 2]_vars

\* C36 (amended): every call of parse_args comes to its end.  A pass of the
\* loop leaves the remaining tokens strictly shorter than they were when
\* it started, or it ends the loop: with nothing remaining, at a "--", at
\* the first non-option token when interspersed arguments are not allowed,
\* or by leaving parse_args altogether, through parser.error (status 2),
\* through the exit of a version or help option (status 0) or through an
\* exception an action raises.
C36_LoopTerminates ==
    /\ [][pc = "running" =>
             \/ pc' = "running" /\ Len(rargs'.list) < Len(rargs.list)
             \/ LoopLeftByReturn
             \/ /\ pc' = "exited"
                /\ result'.kind = "exit"
                /\ \/ result'.status = 2 /\ result'.err # NoException
                   \/ /\ result'.status = 0
                      /\ fired' # <<>>
                      /\ options[fired'[Len(fired')].option].action
                            \in {Name("version"), Name("help")}
             \/ /\ pc' = "raised"
                /\ result'.kind = "raise"
                /\ Len(fired') > Len(fired)]_vars
    /\ (pc = "running") ~> CallEnded

\* A call has returned after two passes that took tokens off, --pair with
\* its two values and then -c, and the loop test that found nothing left.
C36_Witness ==
    /\ pc = "returned"
    /\ args = <<lpair, lcount, DashDash, tc>>
    /\ rargs.list = <<>>
    /\ Len(fired) = 2

----------------------------------------------------------------------------
(* remove_option (SpecReg).                                                *)

\* The entries of a lookup table whose key is not among strs.
EntriesBut(table, strs) ==
    SelectSeq(table, LAMBDA e : e.k \notin StringSet(strs))

\* C37: remove_option(s), called on the parser or on a group (the tables
\* are shared), with s registered removes every short and long string of
\* the option that owns s from the tables, takes that option out of the
\* list of the container that owns it, and leaves the defaults table, the
\* other table entries, the other lists and every option unchanged; with s
\* not registered it raises ValueError and changes nothing.
C37_RemoveOptionFrame ==
    [][\A self \in Containers, s \in RemoveStrings :
          RemoveOption(self, s) =>
             IF has_option(Registry, s)
             THEN LET id == get_option(Registry, s)
                      o == options[id]
                  IN /\ call'.raised = NoError
                     /\ _short_opt' = EntriesBut(_short_opt, OptStrings(o))
                     /\ _long_opt' = EntriesBut(_long_opt, OptStrings(o))
                     /\ Contains(option_list[o.container], id)
                     /\ option_list' =
                           [option_list EXCEPT ![o.container] = ListRemove(@, id)]
                     /\ ~Contains(option_list'[o.container], id)
                     /\ defaults' = defaults
                     /\ options' = options
             ELSE /\ call'.raised = "ValueError"
                  /\ UNCHANGED regvars
      ]_vars

----------------------------------------------------------------------------
(* Registration, then a parse: the destinations of the Values (SpecDest).  *)

\* The vectors the parser is run on once its options are registered.
DestVectors == { <<>>, <<sx>>, <<sy, tx>>, <<lab, tx>>, <<labc>>, <<tx, sx>> }

\* Options are declared on the parser and on groups, and removed; then
\* parse_args is called.
NextDest ==
    \/ \E self \in Containers, d \in Decls :
          NoParse /\ AddOption(self, d)
    \/ \E self \in Containers, opt_str \in RemoveStrings :
          NoParse /\ RemoveOption(self, opt_str)
    \/ NoParse /\ AddOptionGroup
    \/ \E a \in DestVectors : ParseArgs(a)
    \/ LoopEnd
    \/ LongOpt
    \/ ShortOpts
    \/ Positional
    \/ ParseReturn

SpecDest == InitReg /\ [][NextDest]_vars

\* The options that were registered with the destination d.
RegisteredAt(d) == {id \in DOMAIN options : options[id].dest = Str(d)}

\* The destinations options were registered with.
Destinations ==
    {options[id].dest.str : id \in {i \in DOMAIN options : IsStr(options[i].dest)}}

----------------------------------------------------------------------------
(* The indentation of the formatter (SpecFormat).                          *)

\* C39: the formatter's indentation is balanced.  Across any sequence of
\* store_option_strings, format_option_help and format_help calls, whether
\* they return or fail, current_indent is never negative (the assertion in
\* dedent holds), and after each call current_indent and level are what
\* they were before it.
C39_IndentBalanced ==
    [][call'.op \in HelpCalls =>
          /\ formatter'.current_indent >= 0
          /\ formatter'.current_indent = formatter.current_indent
          /\ formatter'.level = formatter.level]_vars

\* Supporting: the calls that return are balanced, and current_indent is
\* level steps of indent_increment, so never negative.
ReturnedCallsBalanced ==
    [][(call'.op \in HelpCalls /\ call'.raised = NoError) =>
          /\ formatter'.current_indent = formatter.current_indent
          /\ formatter'.level = formatter.level]_vars

IndentIsLevelSteps ==
    /\ formatter.level >= 0
    /\ formatter.current_indent = formatter.level * formatter.indent_increment

====
